---- MODULE Spec2Model ----
(***************************************************************************)
(* Model of the YouTube-Transcriber request handlers.                      *)
(*                                                                         *)
(* One request is followed through one of the eight serverless handler     *)
(* variants of the repository.  Every await of a handler is one action;    *)
(* the answers of the external collaborators (YouTube, ytdl-core, yt-dlp,  *)
(* ffmpeg, the speech-to-text service, the file system) are chosen         *)
(* nondeterministically.  Strings the code inspects with a regular         *)
(* expression are sequences of one-character strings; error messages the   *)
(* code inspects with String.includes are sequences of phrases.            *)
(***************************************************************************)
EXTENDS Integers, Sequences, FiniteSets, TLC

VARIABLES
    handler,        \* which handler variant serves the request
    httpMethod,     \* event.httpMethod / req.method
    reqPath,        \* req.path (the Express application routes on it)
    apiKey,         \* event.headers['x-api-key'] ("" when the header is absent)
    body,           \* event.body: [kind |-> "malformed"] or [kind |-> "json", url |-> ...]
    shapeIn,        \* the URL shape body.url was built from
    idIn,           \* the identifier body.url was built from
    ytdlValid,      \* what ytdl.validateURL(url) answers for this url
    openaiKeySet,   \* whether process.env.OPENAI_API_KEY is configured
    pc,             \* position of the handler
    error,          \* message of the error caught by the handler's catch
    videoId,        \* const videoId
    title,          \* the title obtained so far
    transcript,     \* the transcript obtained so far
    lookups,        \* state of the two concurrent lookups of the caption variant
    captionTracks,  \* const captionTracks of getYouTubeTranscript, once the page is parsed
    selectedTrack,  \* let selectedTrack of getYouTubeTranscript
    transcriptXml,  \* the caption segments obtained: contents of the <text> elements of
                    \* const transcriptXml, or the item texts fetchTranscript resolved with
    lengthSeconds,  \* info.videoDetails.lengthSeconds, once known
    audioParts,     \* let audioParts of the chunked handler
    maxDurationSecs, \* the maxDurationSecs parameter of splitAudio
    duration,       \* metadata.format.duration, once ffprobe has answered
    chunks,         \* start time and duration given to each ffmpeg split job
    outputPaths,    \* const outputPaths of splitAudio
    running,        \* the ffmpeg split jobs that have not finished
    finished,       \* the split jobs that have ended, in the order they ended
    partIdx,        \* index of the chunk the transcription loop is at
    calls,          \* the external calls made so far, in order
    files,          \* the temporary files that exist
    created,        \* every temporary file the request has created
    cleanupFailed,  \* whether an unlink of the request has failed
    playabilityStatus, \* playabilityStatus.status of the watch page, once fetched
    response,       \* what the handler returned
    concurrent      \* two requests served at once by one handler, and the directory
                    \* of temporary files they share

vars == <<handler, httpMethod, reqPath, apiKey, body, shapeIn, idIn, ytdlValid, openaiKeySet,
          pc, error, videoId, title, transcript, lookups, captionTracks, selectedTrack, transcriptXml, lengthSeconds, audioParts, partIdx,
          calls, files, created, cleanupFailed, playabilityStatus, response,
          maxDurationSecs, duration, chunks, outputPaths, running, finished, concurrent>>

-----------------------------------------------------------------------------
(* Bounds of the model *)

\* longest identifier drawn for the URL/ID extractor
MaxIdLen == 2

\* most chunks splitAudio produces in the model
MaxParts == 2

\* largest maxDurationSecs the chunk arithmetic is enumerated for
MaxCeiling == 3

-----------------------------------------------------------------------------
(* Handler variants *)

AudioDownload  == "netlify/transcribe.js#audio-download"
Captions       == "netlify/transcribe.js#captions"
FnTranscribe   == "functions/transcribe.js"
FnIndex        == "functions/transcribe/index.js"
YtTranscript   == "part_000"
WhisperBuffer  == "part_001"
YtDlpWhisper   == "part_002"
ChunkedWhisper == "part_003"

Handlers == {AudioDownload, Captions, FnTranscribe, FnIndex,
             YtTranscript, WhisperBuffer, YtDlpWhisper, ChunkedWhisper}

\* the handlers that extract the identifier with their own getVideoId
GetVideoIdHandlers == {AudioDownload, Captions, YtTranscript, WhisperBuffer, YtDlpWhisper}

\* process.env.API_KEY
API_KEY == "secret-key"

\* maxDurationSecs = 1800, the default of splitAudio's parameter
DefaultMaxDurationSecs == 1800

\* one request at a time
NoConcurrent == [pc |-> <<>>]

NoResponse == [none |-> TRUE]
NoError == <<>>
NoValue == <<>>

-----------------------------------------------------------------------------
(* Strings *)

\* what the regular expression of getVideoId stops the identifier at: [^&\n?#]
StopChars == {"&", "\n", "?", "#"}

WatchShape == <<"y","o","u","t","u","b","e",".","c","o","m","/","w","a","t","c","h","?","v","=">>
ShortShape == <<"y","o","u","t","u",".","b","e","/">>
EmbedShape == <<"y","o","u","t","u","b","e",".","c","o","m","/","e","m","b","e","d","/">>
VShape     == <<"y","o","u","t","u","b","e",".","c","o","m","/","v","/">>
\* a YouTube URL no getVideoId recognises
ShortsShape == <<"y","o","u","t","u","b","e",".","c","o","m","/","s","h","o","r","t","s","/">>
Scheme     == <<"h","t","t","p","s",":","/","/">>

Shapes == {"watch", "youtu.be", "embed", "v"}

ShapePrefix(shape) ==
    CASE shape = "watch"    -> WatchShape
      [] shape = "youtu.be" -> ShortShape
      [] shape = "embed"    -> EmbedShape
      [] shape = "v"        -> VShape
      [] shape = "shorts"   -> ShortsShape

\* the URL of the given shape for the identifier id
BuildUrl(shape, id) == Scheme \o ShapePrefix(shape) \o id

\* s has p at position i
StartsAt(s, i, p) ==
    /\ i + Len(p) - 1 <= Len(s)
    /\ \A k \in 1..Len(p) : s[i + k - 1] = p[k]

\* the longest run of characters outside StopChars from position j: ([^&\n?#]+)
RECURSIVE Capture(_, _)
Capture(s, j) ==
    IF j > Len(s) \/ s[j] \in StopChars
    THEN <<>>
    ELSE <<s[j]>> \o Capture(s, j + 1)

\* the alternatives (in order) that match at i and are followed by one captured character
AltsAt(s, i, alts) ==
    {k \in 1..Len(alts) :
        /\ StartsAt(s, i, alts[k])
        /\ i + Len(alts[k]) <= Len(s)
        /\ s[i + Len(alts[k])] \notin StopChars}

Min(S) == CHOOSE x \in S : \A y \in S : x <= y

\* url.match(/(?:alt1|alt2|...)([^&\n?#]+)/): the first capture of the leftmost
\* match, <<>> (the capture is never empty) when there is no match
RegexCapture(url, alts) ==
    LET starts == {i \in 1..Len(url) : AltsAt(url, i, alts) # {}}
    IN  IF starts = {}
        THEN NoValue
        ELSE LET i == Min(starts)
                 k == Min(AltsAt(url, i, alts))
             IN  Capture(url, i + Len(alts[k]))

FourShapes  == <<WatchShape, ShortShape, EmbedShape, VShape>>
ThreeShapes == <<WatchShape, ShortShape, EmbedShape>>

getVideoId_netlify(url) == RegexCapture(url, FourShapes)
getVideoId_part000(url) == RegexCapture(url, ThreeShapes)
getVideoId_part001(url) == RegexCapture(url, ThreeShapes)
getVideoId_part002(url) == RegexCapture(url, FourShapes)

\* the getVideoId the handler h calls
getVideoId(h, url) ==
    CASE h \in {AudioDownload, Captions} -> getVideoId_netlify(url)
      [] h = YtTranscript                -> getVideoId_part000(url)
      [] h = WhisperBuffer               -> getVideoId_part001(url)
      [] h = YtDlpWhisper                -> getVideoId_part002(url)

\* message.includes(phrase), on messages that are sequences of phrases
Includes(message, phrase) == \E i \in 1..Len(message) : message[i] = phrase

-----------------------------------------------------------------------------
(* Error messages and responses *)

KeyRequired == <<"API key", " is required">>
KeyInvalid  == <<"Invalid ", "API key">>

\* validateApiKey(apiKey): the message of the error it throws, NoError when it returns
validateApiKey(key) ==
    IF key = "" THEN KeyRequired
    ELSE IF key # API_KEY THEN KeyInvalid
    ELSE NoError

\* the headers object of the handler h
Headers(h) ==
    [AccessControlAllowOrigin  |-> "*",
     AccessControlAllowHeaders |-> IF h = AudioDownload THEN "Content-Type"
                                   ELSE "Content-Type, X-API-Key",
     AccessControlAllowMethods |-> "POST, OPTIONS"]

\* return { statusCode, headers, body }; functions/transcribe.js has no headers object
Reply(h, status, b) ==
    IF h = FnTranscribe
    THEN [statusCode |-> status, body |-> b]
    ELSE [statusCode |-> status, headers |-> Headers(h), body |-> b]

Failure(message) == [success |-> FALSE, error |-> message]

\* error.message || fallback
OrElse(message, fallback) == IF message = <<>> THEN fallback ELSE message

\* the response the catch block of the handler h builds from the caught message
ErrorResponse(h, message) ==
    CASE h = AudioDownload ->
           IF Includes(message, "not accessible")
           THEN Reply(h, 404, [success |-> FALSE,
                               error |-> <<"Video is not accessible or may be private">>,
                               details |-> message])
           ELSE IF Includes(message, "not playable")
           THEN Reply(h, 403, [success |-> FALSE,
                               error |-> <<"Video is not playable: ">> \o message,
                               details |-> message])
           ELSE IF Includes(message, "No audio formats")
           THEN Reply(h, 400, [success |-> FALSE,
                               error |-> <<"No audio available for this video">>,
                               details |-> message])
           ELSE IF Includes(message, "Could not find video data")
           THEN Reply(h, 500, [success |-> FALSE,
                               error |-> <<"Could not extract video data from YouTube page">>,
                               details |-> message])
           ELSE Reply(h, 500, [success |-> FALSE,
                               error |-> <<"Failed to process video">>,
                               details |-> message])
      [] h = Captions ->
           IF Includes(message, "API key")
           THEN Reply(h, 401, Failure(message))
           ELSE IF Includes(message, "No captions data found")
           THEN Reply(h, 404, Failure(<<"No captions available for this video">>))
           ELSE IF Includes(message, "No caption tracks available")
           THEN Reply(h, 404, Failure(<<"Captions are disabled for this video">>))
           ELSE IF Includes(message, "HTTP 404")
           THEN Reply(h, 404, Failure(<<"Video not found or is private">>))
           ELSE IF Includes(message, "HTTP 403")
           THEN Reply(h, 403, Failure(<<"Access denied - video may be restricted">>))
           ELSE Reply(h, 500, Failure(<<"Failed to extract transcript">>))
      [] h = FnTranscribe ->
           Reply(h, 500, Failure(OrElse(message, <<"Failed to transcribe video">>)))
      [] h = FnIndex ->
           Reply(h, IF Includes(message, "API key") THEN 401 ELSE 500,
                 Failure(OrElse(message, <<"Failed to transcribe video">>)))
      [] h = YtTranscript ->
           Reply(h, IF Includes(message, "API key") THEN 401 ELSE 500,
                 Failure(IF Includes(message, "API key") THEN message
                         ELSE IF Includes(message, "Transcript is disabled")
                         THEN <<"Transcript is disabled for this video">>
                         ELSE IF Includes(message, "No transcript found")
                         THEN <<"No transcript available for this video">>
                         ELSE <<"Failed to get transcript">>))
      [] h = WhisperBuffer ->
           IF Includes(message, "API key")
           THEN Reply(h, 401, Failure(message))
           ELSE IF Includes(message, "timeout")
           THEN Reply(h, 500, Failure(<<"Video download timed out - video may be too long">>))
           ELSE IF Includes(message, "410")
           THEN Reply(h, 500, Failure(<<"Video is not available or has been removed">>))
           ELSE IF Includes(message, "private")
           THEN Reply(h, 500, Failure(<<"Video is private or restricted">>))
           ELSE Reply(h, 500, Failure(<<"Failed to transcribe video">>))
      [] h = YtDlpWhisper ->
           IF Includes(message, "API key")
           THEN Reply(h, 401, Failure(message))
           ELSE IF Includes(message, "timeout")
           THEN Reply(h, 500, Failure(<<"Processing timed out - video may be too long">>))
           ELSE IF Includes(message, "private")
           THEN Reply(h, 500, Failure(<<"Video is private or restricted">>))
           ELSE IF Includes(message, "not available")
           THEN Reply(h, 500, Failure(<<"Video is not available">>))
           ELSE IF Includes(message, "OpenAI")
           THEN Reply(h, 500, Failure(<<"Transcription service error">>))
           ELSE Reply(h, 500, Failure(<<"Failed to process video">>))
      [] h = ChunkedWhisper ->
           Reply(h, IF Includes(message, "API key") THEN 401 ELSE 500,
                 Failure(OrElse(message, <<"Failed to transcribe video">>)))

-----------------------------------------------------------------------------
(* The request *)

\* an 11-character identifier, as YouTube issues them
SampleId == <<"d","Q","w","4","w","9","W","g","X","c","Q">>

\* a URL that is no YouTube URL
JunkUrl == Scheme \o <<"e","x","a","m","p","l","e",".","c","o","m","/","a">>

\* the handlers that ask ytdl.validateURL
YtdlHandlers == {FnTranscribe, FnIndex, WhisperBuffer, ChunkedWhisper}

\* the handlers that read process.env.OPENAI_API_KEY before starting
OpenAIKeyHandlers == {WhisperBuffer, YtDlpWhisper}

\* the path a serverless function is served at
FunctionPath == "/.netlify/functions/transcribe"

NoTrack == [languageCode |-> <<>>, baseUrl |-> ""]

\* the state of a handler that has not started
IdleWork ==
    /\ error = NoError
    /\ videoId = NoValue
    /\ title = NoValue
    /\ transcript = NoValue
    /\ lookups = [transcript |-> "idle", title |-> "idle"]
    /\ captionTracks = <<>>
    /\ selectedTrack = NoTrack
    /\ transcriptXml = <<>>
    /\ lengthSeconds = <<>>
    /\ audioParts = <<>>
    /\ duration = 0
    /\ chunks = <<>>
    /\ outputPaths = <<>>
    /\ running = {}
    /\ finished = <<>>
    /\ partIdx = 0
    /\ calls = <<>>
    /\ files = {}
    /\ created = {}
    /\ cleanupFailed = FALSE
    /\ playabilityStatus = "unknown"
    /\ response = NoResponse

Init ==
    /\ handler \in Handlers
    /\ httpMethod \in {"OPTIONS", "GET", "POST"}
    /\ reqPath = FunctionPath
    /\ apiKey \in {"", "wrong-key", API_KEY}
    /\ shapeIn \in Shapes \cup {"shorts", "none"}
    /\ idIn = IF shapeIn = "none" THEN <<>> ELSE SampleId
    /\ body \in IF shapeIn = "none"
                THEN {[kind |-> "malformed", url |-> <<>>],
                      [kind |-> "json", url |-> <<>>],
                      [kind |-> "json", url |-> JunkUrl]}
                ELSE {[kind |-> "json", url |-> BuildUrl(shapeIn, idIn)]}
    /\ ytdlValid \in IF handler \in YtdlHandlers /\ shapeIn # "none"
                     THEN BOOLEAN ELSE {FALSE}
    /\ openaiKeySet \in IF handler \in OpenAIKeyHandlers THEN BOOLEAN ELSE {TRUE}
    /\ maxDurationSecs = DefaultMaxDurationSecs
    /\ concurrent = NoConcurrent
    /\ pc = "start"
    /\ IdleWork

request == <<handler, httpMethod, reqPath, apiKey, body, shapeIn, idIn, ytdlValid, openaiKeySet,
             maxDurationSecs, concurrent>>

\* the state of splitAudio and of its ffmpeg jobs
splitting == <<duration, chunks, outputPaths, running, finished>>

\* return <resp>
Return(resp) ==
    /\ response' = resp
    /\ pc' = "done"

\* throw new Error(message), caught by the handler's catch block
Throw(message) ==
    /\ error' = message
    /\ pc' = "catch"

-----------------------------------------------------------------------------
(* The synchronous head of every handler *)

\* the OPTIONS short-circuit and the POST-only check
MethodCheck ==
    /\ pc = "start"
    /\ IF handler # FnTranscribe /\ httpMethod = "OPTIONS"
       THEN Return([statusCode |-> 204, headers |-> Headers(handler)])
       ELSE IF httpMethod # "POST"
       THEN Return(Reply(handler, 405, [error |-> <<"Method not allowed">>]))
       ELSE /\ pc' = IF handler = AudioDownload THEN "parse" ELSE "auth"
            /\ UNCHANGED response
    /\ UNCHANGED <<request, splitting, playabilityStatus, error, videoId, title, transcript, lookups, captionTracks, selectedTrack, transcriptXml, lengthSeconds, audioParts,
                   partIdx, calls, files, created, cleanupFailed>>

\* const apiKey = event.headers['x-api-key']; validateApiKey(apiKey);
ValidateKey ==
    /\ pc = "auth"
    /\ IF validateApiKey(apiKey) # NoError
       THEN Throw(validateApiKey(apiKey))
       ELSE pc' = "parse" /\ UNCHANGED error
    /\ UNCHANGED <<request, splitting, playabilityStatus, videoId, title, transcript, lookups, captionTracks, selectedTrack, transcriptXml, lengthSeconds, audioParts,
                   partIdx, calls, files, created, response, cleanupFailed>>

\* the message of the SyntaxError/TypeError of const { url } = JSON.parse(event.body)
ParseError == <<"Unexpected token in JSON">>

\* const { url } = JSON.parse(event.body); if (!url) return 400
ParseBody ==
    /\ pc = "parse"
    /\ IF body.kind = "malformed"
       THEN Throw(ParseError) /\ UNCHANGED response
       ELSE IF body.url = <<>>
       THEN /\ Return(Reply(handler, 400,
                            Failure(IF handler = ChunkedWhisper
                                    THEN <<"Invalid YouTube URL">>
                                    ELSE <<"YouTube URL is required">>)))
            /\ UNCHANGED error
       ELSE pc' = "validate" /\ UNCHANGED <<error, response>>
    /\ UNCHANGED <<request, splitting, playabilityStatus, videoId, title, transcript, lookups, captionTracks, selectedTrack, transcriptXml, lengthSeconds, audioParts,
                   partIdx, calls, files, created, cleanupFailed>>

\* whether the handler h accepts the url, and the identifier it goes on with
UrlAccepted(h, url, ytdlOk) ==
    CASE h \in {FnTranscribe, FnIndex, ChunkedWhisper} -> ytdlOk
      [] h = WhisperBuffer -> getVideoId(h, url) # NoValue /\ ytdlOk
      [] OTHER -> getVideoId(h, url) # NoValue

\* where the handler h goes once the url is accepted
AfterValidate(h) ==
    CASE h = AudioDownload  -> "videoData"
      [] h = Captions       -> "lookups"
      [] h = YtTranscript   -> "fetchTranscript"
      [] h \in {FnTranscribe, FnIndex} -> "download"
      [] h \in {WhisperBuffer, YtDlpWhisper} -> "config"
      [] h = ChunkedWhisper -> "getInfo"

\* const videoId = getVideoId(url) / ytdl.validateURL(url); invalid -> 400
ValidateUrl ==
    /\ pc = "validate"
    /\ IF ~UrlAccepted(handler, body.url, ytdlValid)
       THEN Return(Reply(handler, 400, Failure(<<"Invalid YouTube URL">>)))
            /\ UNCHANGED videoId
       ELSE /\ videoId' = IF handler \in GetVideoIdHandlers
                          THEN getVideoId(handler, body.url)
                          ELSE idIn
            /\ pc' = AfterValidate(handler)
            /\ UNCHANGED response
    /\ UNCHANGED <<request, splitting, playabilityStatus, error, title, transcript, lookups, captionTracks, selectedTrack, transcriptXml, lengthSeconds, audioParts,
                   partIdx, calls, files, created, cleanupFailed>>

\* if (!process.env.OPENAI_API_KEY) return 500
CheckOpenAIKey ==
    /\ pc = "config"
    /\ IF ~openaiKeySet
       THEN Return(Reply(handler, 500, Failure(<<"OpenAI API key not configured">>)))
       ELSE /\ pc' = IF handler = WhisperBuffer THEN "getInfo" ELSE "download"
            /\ UNCHANGED response
    /\ UNCHANGED <<request, splitting, playabilityStatus, error, videoId, title, transcript, lookups, captionTracks, selectedTrack, transcriptXml, lengthSeconds, audioParts,
                   partIdx, calls, files, created, cleanupFailed>>

-----------------------------------------------------------------------------
(* What the external collaborators can answer *)

\* messages of the errors a network or API call can fail with
ExternalErrors ==
    {<<"socket hang up">>,
     <<"Incorrect ", "API key", " provided">>,
     <<"connect ", "timeout">>,
     <<>>}

\* messages of the errors a file-system call can fail with
FsErrors == {<<"EIO: i/o error">>}

\* the temporary files of a request
AudioPath    == <<"audioPath", 0>>
MainAudio    == <<"mainAudioPath", 0>>
PartPath(i)  == <<"part", i>>

Titles == {<<"Some Video">>}

\* one more external call
Call(name) == calls' = Append(calls, name)

\* writing the file f (it exists from then on)
CreateFile(f) ==
    /\ files' = files \cup {f}
    /\ created' = created \cup {f}

-----------------------------------------------------------------------------
(* netlify/functions/transcribe.js, audio-download variant *)

\* what the watch page can hold for getYouTubeVideoData
VideoPages ==
    {[kind |-> "httpError", status |-> "HTTP 404"],
     [kind |-> "httpError", status |-> "HTTP 403"],
     [kind |-> "noPlayerResponse"],
     [kind |-> "badJson"],
     [kind |-> "notPlayable", reason |-> <<"Unknown reason">>],
     [kind |-> "notPlayable", reason |-> <<"This video is ", "private">>],
     [kind |-> "noAudioFormats"],
     [kind |-> "ok", title |-> <<"Some Video">>],
     [kind |-> "ok", title |-> <<"Unknown">>]}

\* playerResponse.playabilityStatus.status of the page, where the page has one
PagePlayability(page) ==
    CASE page.kind \in {"httpError", "noPlayerResponse", "badJson"} -> "unknown"
      [] page.kind = "notPlayable" -> "UNPLAYABLE"
      [] page.kind = "noCaptionsData" -> page.playability
      [] OTHER -> "OK"

\* the message getYouTubeVideoData throws for the page, NoError when it returns
VideoDataError(page) ==
    CASE page.kind = "httpError"        -> <<page.status, ": Video ", "not accessible">>
      [] page.kind = "noPlayerResponse" -> <<"Could not find video data", " in page">>
      [] page.kind = "badJson"          -> ParseError
      [] page.kind = "notPlayable"      -> <<"Video ", "not playable", ": ">> \o page.reason
      [] page.kind = "noAudioFormats"   -> <<"No audio formats", " found">>
      [] OTHER                          -> NoError

\* const videoData = await getYouTubeVideoData(videoId)
getYouTubeVideoData ==
    /\ pc = "videoData"
    /\ Call("fetchPage")
    /\ \/ \E m \in ExternalErrors :
            Throw(m) /\ UNCHANGED <<title, playabilityStatus>>
       \/ \E page \in VideoPages :
            /\ playabilityStatus' = PagePlayability(page)
            /\ IF page.kind # "ok"
               THEN Throw(VideoDataError(page)) /\ UNCHANGED title
               ELSE /\ title' = page.title
                    /\ pc' = "download"
                    /\ UNCHANGED error
    /\ UNCHANGED <<request, splitting, videoId, transcript, lookups, captionTracks, selectedTrack, transcriptXml, lengthSeconds,
                   audioParts, partIdx, files, created, response, cleanupFailed>>

\* const downloadResult = await downloadAudio(videoData.audioUrl, audioPath)
downloadAudio_netlify ==
    /\ pc = "download"
    /\ handler = AudioDownload
    /\ Call("fetchAudio")
    /\ \/ \E m \in ExternalErrors : Throw(m) /\ UNCHANGED <<files, created>>
       \/ Throw(<<"Failed to download audio: ", "403 Forbidden">>) /\ UNCHANGED <<files, created>>
       \/ \E m \in FsErrors, written \in BOOLEAN :
            /\ Throw(m)
            /\ IF written THEN CreateFile(AudioPath) ELSE UNCHANGED <<files, created>>
       \/ /\ CreateFile(AudioPath)
          /\ pc' = "verify"
          /\ UNCHANGED error
    /\ UNCHANGED <<request, splitting, playabilityStatus, videoId, title, transcript, lookups, captionTracks, selectedTrack, transcriptXml,
                   lengthSeconds, audioParts, partIdx, response, cleanupFailed>>

\* if (fs.existsSync(audioPath)) await unlink(audioPath); return 200
AudioDownloadFinish ==
    /\ pc = "verify"
    /\ \/ /\ files' = files \ {AudioPath}
          /\ Return(Reply(handler, 200,
                          [success |-> TRUE,
                           message |-> <<"Audio downloaded successfully">>,
                           videoId |-> videoId,
                           title |-> title,
                           audioFormat |-> "videoData.mimeType",
                           bitrate |-> "videoData.bitrate",
                           fileSize |-> "downloadResult.size",
                           step |-> "audio-download-only"]))
          /\ UNCHANGED <<error, cleanupFailed>>
       \/ /\ AudioPath \in files
          /\ \E m \in FsErrors : Throw(m)
          /\ cleanupFailed' = TRUE
          /\ UNCHANGED <<files, response>>
    /\ UNCHANGED <<request, splitting, playabilityStatus, videoId, title, transcript, lookups, captionTracks, selectedTrack, transcriptXml,
                   lengthSeconds, audioParts, partIdx, calls, created>>

-----------------------------------------------------------------------------
(* netlify/functions/transcribe.js, caption variant *)

\* most caption tracks a watch page lists in the model
MaxTracks == 2

Whitespace == {" ", "\n", "\t"}

RECURSIVE TrimLeft(_)
TrimLeft(s) ==
    IF s # <<>> /\ Head(s) \in Whitespace THEN TrimLeft(Tail(s)) ELSE s

RECURSIVE TrimRight(_)
TrimRight(s) ==
    IF s # <<>> /\ s[Len(s)] \in Whitespace
    THEN TrimRight(SubSeq(s, 1, Len(s) - 1))
    ELSE s

\* String.prototype.trim
Trim(s) == TrimRight(TrimLeft(s))

\* s.replace(/pat/g, rep): every occurrence, left to right, without rescanning
RECURSIVE ReplaceAll(_, _, _)
ReplaceAll(s, pat, rep) ==
    IF s = <<>> THEN <<>>
    ELSE IF StartsAt(s, 1, pat)
    THEN rep \o ReplaceAll(SubSeq(s, Len(pat) + 1, Len(s)), pat, rep)
    ELSE <<Head(s)>> \o ReplaceAll(Tail(s), pat, rep)

EntityAmp  == <<"&","a","m","p",";">>
EntityLt   == <<"&","l","t",";">>
EntityGt   == <<"&","g","t",";">>
EntityQuot == <<"&","q","u","o","t",";">>
EntityApos == <<"&","#","3","9",";">>

\* text.replace(/&amp;/g,'&').replace(/&lt;/g,'<').replace(/&gt;/g,'>')
\*     .replace(/&quot;/g,'"').replace(/&#39;/g,"'")
DecodeEntities(text) ==
    ReplaceAll(
      ReplaceAll(
        ReplaceAll(
          ReplaceAll(
            ReplaceAll(text, EntityAmp, <<"&">>),
            EntityLt, <<"<">>),
          EntityGt, <<">">>),
        EntityQuot, <<"\"">>),
      EntityApos, <<"'">>)

\* the mapped segment texts that are not empty: .filter(text => text.length > 0)
RECURSIVE NonEmpty(_)
NonEmpty(texts) ==
    IF texts = <<>> THEN <<>>
    ELSE IF Head(texts) = <<>> THEN NonEmpty(Tail(texts))
    ELSE <<Head(texts)>> \o NonEmpty(Tail(texts))

\* texts.join(sep)
RECURSIVE Join(_, _)
Join(texts, sep) ==
    IF texts = <<>> THEN <<>>
    ELSE IF Len(texts) = 1 THEN Head(texts)
    ELSE Head(texts) \o sep \o Join(Tail(texts), sep)

\* the transcript of the <text> elements whose contents are segments
DecodeTranscript(segments) ==
    Join(NonEmpty([i \in 1..Len(segments) |-> DecodeEntities(Trim(segments[i]))]),
         <<" ">>)

\* contents of the <text> elements of the timed-text payloads the model draws
XmlPayloads ==
    {<< >>,
     << <<"h","i">> >>,
     << <<"h","e","l","l","o"," ","w","o","r","l","d">> >>,
     << <<" ","a"," ","&","a","m","p",";"," ","b"," ">>, <<" ">>,
        <<"c","d","e","f","g","h">> >>,
     << <<"u","s","e"," ","&","a","m","p",";","l","t",";","b","r","&","a","m","p",";",
          "g","t",";"," ","t","a","g","s">> >>,
     << <<"a"," ","&","l","t",";"," ","b"," ","&","g","t",";"," ","c"," ",
          "&","q","u","o","t",";","d","&","#","3","9",";">> >>}

\* languageCode of a caption track, as the sequence of its characters
LangEn   == <<"e", "n">>
LangEnUS == <<"e", "n", "-", "U", "S">>
LangEnGB == <<"e", "n", "-", "G", "B">>
LangFr   == <<"f", "r">>

CaptionTracks ==
    [languageCode : {LangEn, LangEnUS, LangEnGB, LangFr}, baseUrl : {"", "https://timedtext"}]

TrackLists == UNION {[1..n -> CaptionTracks] : n \in 0..MaxTracks}

\* what the watch page can hold for getYouTubeTranscript
CaptionPages ==
    {[kind |-> "httpError", status |-> st] : st \in {"HTTP 404", "HTTP 403", "HTTP 500"}}
    \cup {[kind |-> "noCaptionsData", playability |-> st] : st \in {"OK", "UNPLAYABLE"}}
    \cup {[kind |-> "badJson"]}
    \cup {[kind |-> "captions", tracks |-> ts] : ts \in TrackLists}

\* captionTracks.find(track => track.languageCode === 'en' ||
\*                             track.languageCode === 'en-US') || captionTracks[0]
SelectTrack(tracks) ==
    LET english == {i \in 1..Len(tracks) : tracks[i].languageCode = LangEn \/ tracks[i].languageCode = LangEnUS}
    IN  IF english # {} THEN tracks[Min(english)] ELSE tracks[1]

\* the message getYouTubeTranscript throws on the page, NoError when it goes on
CaptionPageError(page) ==
    CASE page.kind = "httpError"      -> <<page.status, ": status text">>
      [] page.kind = "noCaptionsData" -> <<"No captions data found", " in video page">>
      [] page.kind = "badJson"        -> ParseError
      [] OTHER ->
           IF page.tracks = <<>>
           THEN <<"No caption tracks available">>
           ELSE IF SelectTrack(page.tracks).baseUrl = ""
           THEN <<"No valid caption track found">>
           ELSE NoError

\* the message getYouTubeTranscript throws on the payload, NoError when it returns
TranscriptError(segments) ==
    IF segments = <<>>
    THEN <<"No transcript text found in XML">>
    ELSE IF Len(DecodeTranscript(segments)) < 10
    THEN <<"Transcript too short or empty">>
    ELSE NoError

\* Promise.all([getYouTubeTranscript(videoId), getVideoTitle(videoId)]): both
\* functions run to their first await, the fetch of the watch page
StartLookups ==
    /\ pc = "lookups"
    /\ calls' = calls \o <<"fetchPage", "fetchPage">>
    /\ lookups' = [transcript |-> "page", title |-> "page"]
    /\ pc' = "await"
    /\ UNCHANGED <<request, splitting, playabilityStatus, error, videoId, title, transcript, captionTracks, selectedTrack, transcriptXml,
                   lengthSeconds, audioParts, partIdx, files, created, response, cleanupFailed>>

\* a rejected getYouTubeTranscript rejects Promise.all at once
FailTranscript(message) ==
    /\ Throw(message)
    /\ lookups' = [lookups EXCEPT !.transcript = "failed"]

\* getYouTubeTranscript, from the watch page to the fetch of the caption track
TranscriptPage ==
    /\ pc = "await"
    /\ lookups.transcript = "page"
    /\ \/ \E m \in ExternalErrors :
            FailTranscript(m) /\ UNCHANGED <<captionTracks, selectedTrack, calls, playabilityStatus>>
       \/ \E page \in CaptionPages :
            /\ playabilityStatus' = PagePlayability(page)
            /\ captionTracks' = IF page.kind = "captions" THEN page.tracks ELSE captionTracks
            /\ IF CaptionPageError(page) # NoError
               THEN /\ FailTranscript(CaptionPageError(page))
                    /\ selectedTrack' = IF page.kind = "captions" /\ page.tracks # <<>>
                                        THEN SelectTrack(page.tracks) ELSE selectedTrack
                    /\ UNCHANGED calls
               ELSE /\ selectedTrack' = SelectTrack(page.tracks)
                    /\ Call("fetchCaptions")
                    /\ lookups' = [lookups EXCEPT !.transcript = "xml"]
                    /\ UNCHANGED <<pc, error>>
    /\ UNCHANGED <<request, splitting, videoId, title, transcript, transcriptXml, lengthSeconds,
                   audioParts, partIdx, files, created, response, cleanupFailed>>

\* getYouTubeTranscript, from the caption payload to the transcript
TranscriptXml ==
    /\ pc = "await"
    /\ lookups.transcript = "xml"
    /\ \/ \E m \in ExternalErrors : FailTranscript(m) /\ UNCHANGED <<transcript, transcriptXml>>
       \/ /\ FailTranscript(<<"Failed to fetch transcript: ", "404">>)
          /\ UNCHANGED <<transcript, transcriptXml>>
       \/ \E segments \in XmlPayloads :
            /\ transcriptXml' = segments
            /\ IF TranscriptError(segments) # NoError
               THEN FailTranscript(TranscriptError(segments)) /\ UNCHANGED transcript
               ELSE /\ transcript' = DecodeTranscript(segments)
                    /\ lookups' = [lookups EXCEPT !.transcript = "done"]
                    /\ UNCHANGED <<pc, error>>
    /\ UNCHANGED <<request, splitting, playabilityStatus, videoId, title, captionTracks, selectedTrack,
                   lengthSeconds, audioParts, partIdx, calls, files, created, response, cleanupFailed>>

\* a variant of getVideoTitle whose catch throws the error on
getVideoTitle_Rethrow ==
    /\ pc = "await"
    /\ lookups.title = "page"
    /\ \/ /\ title' \in Titles \cup {<<"Unknown Title">>}
          /\ lookups' = [lookups EXCEPT !.title = "done"]
          /\ UNCHANGED <<pc, error>>
       \/ /\ Throw(<<"fetch failed">>)
          /\ lookups' = [lookups EXCEPT !.title = "caught"]
          /\ UNCHANGED title
    /\ UNCHANGED <<request, splitting, playabilityStatus, videoId, transcript, captionTracks, selectedTrack, transcriptXml, lengthSeconds,
                   audioParts, partIdx, calls, files, created, response, cleanupFailed>>

\* getVideoTitle: the <title> of the page, 'Unknown Title' when it has none; the
\* catch of the function answers 'Unknown Title' for any error of the fetch
getVideoTitle ==
    /\ pc = "await"
    /\ lookups.title = "page"
    /\ \/ /\ title' \in Titles \cup {<<"Unknown Title">>}
          /\ lookups' = [lookups EXCEPT !.title = "done"]
       \/ /\ title' = <<"Unknown Title">>
          /\ lookups' = [lookups EXCEPT !.title = "caught"]
    /\ UNCHANGED <<request, splitting, playabilityStatus, pc, error, videoId, transcript, captionTracks, selectedTrack, transcriptXml, lengthSeconds,
                   audioParts, partIdx, calls, files, created, response, cleanupFailed>>

\* a variant of the caption reply that leaves the method field out of the body
CaptionsRespond_NoMethod ==
    /\ pc = "await"
    /\ lookups.transcript = "done"
    /\ lookups.title \in {"done", "caught"}
    /\ Return(Reply(handler, 200,
                    [success |-> TRUE,
                     transcript |-> transcript,
                     videoId |-> videoId,
                     title |-> title]))
    /\ UNCHANGED <<request, splitting, playabilityStatus, error, videoId, title, transcript, lookups, captionTracks, selectedTrack, transcriptXml,
                   lengthSeconds, audioParts, partIdx, calls, files, created, cleanupFailed>>

\* both lookups are in: return 200
CaptionsRespond ==
    /\ pc = "await"
    /\ lookups.transcript = "done"
    /\ lookups.title \in {"done", "caught"}
    /\ Return(Reply(handler, 200,
                    [success |-> TRUE,
                     transcript |-> transcript,
                     videoId |-> videoId,
                     title |-> title,
                     method |-> "youtube-captions"]))
    /\ UNCHANGED <<request, splitting, playabilityStatus, error, videoId, title, transcript, lookups, captionTracks, selectedTrack, transcriptXml,
                   lengthSeconds, audioParts, partIdx, calls, files, created, cleanupFailed>>

-----------------------------------------------------------------------------
(* part_000: the youtube-transcript library *)

\* what YoutubeTranscript.fetchTranscript can throw (its errors carry a message)
TranscriptLibErrors ==
    (ExternalErrors \ {<<>>})
    \cup {<<"[YoutubeTranscript] ", "Transcript is disabled", " on this video">>,
          <<"[YoutubeTranscript] ", "No transcript found">>}

\* the item texts YoutubeTranscript.fetchTranscript can resolve with
TranscriptItems ==
    {<< >>,
     << <<"h","i">> >>,
     << <<"h","e","l","l","o">>, << >>, <<"w","o","r","l","d">> >>}

\* const transcript = await YoutubeTranscript.fetchTranscript(videoId); 404 or 200
fetchTranscript ==
    /\ pc = "fetchTranscript"
    /\ Call("fetchTranscript")
    /\ \/ \E m \in TranscriptLibErrors : Throw(m) /\ UNCHANGED <<transcript, transcriptXml, response>>
       \/ \E items \in TranscriptItems :
            /\ UNCHANGED error
            /\ transcriptXml' = items
            /\ IF items = <<>>
               THEN /\ Return(Reply(handler, 404,
                                    Failure(<<"No transcript available for this video">>)))
                    /\ UNCHANGED transcript
               ELSE /\ transcript' = Join(items, <<" ">>)
                    /\ Return(Reply(handler, 200,
                                    [success |-> TRUE,
                                     transcript |-> Join(items, <<" ">>),
                                     videoId |-> videoId]))
    /\ UNCHANGED <<request, splitting, playabilityStatus, videoId, title, lookups, captionTracks, selectedTrack, lengthSeconds,
                   audioParts, partIdx, files, created, cleanupFailed>>

-----------------------------------------------------------------------------
(* functions/transcribe.js and functions/transcribe/index.js *)

\* what the speech-to-text service can answer for one audio file
SttTexts == {<<"spoken words">>}

\* ytdl(url).pipe(fs.createWriteStream(audioPath)).on('finish', resolve).on('error', reject)
\* An error of the ytdl stream itself has no listener: the handler never returns.
\* No timer is set: a transfer that neither ends nor fails is awaited for ever.
ytdlPipe ==
    /\ pc = "download"
    /\ handler \in {FnTranscribe, FnIndex}
    /\ Call("ytdlDownload")
    /\ \/ /\ CreateFile(AudioPath)
          /\ pc' = "stt"
          /\ UNCHANGED error
       \/ \E m \in FsErrors, written \in BOOLEAN :
            /\ Throw(m)
            /\ IF written THEN CreateFile(AudioPath) ELSE UNCHANGED <<files, created>>
       \/ /\ CreateFile(AudioPath)
          /\ pc' = "crashed"
          /\ UNCHANGED error
       \/ /\ CreateFile(AudioPath)
          /\ pc' = "stalled"
          /\ UNCHANGED error
    /\ UNCHANGED <<request, splitting, playabilityStatus, videoId, title, transcript, lookups, captionTracks, selectedTrack, transcriptXml,
                   lengthSeconds, audioParts, partIdx, response, cleanupFailed>>

\* const transcription = await openai.audio.transcriptions.create({ file: ... })
whisperFile ==
    /\ pc = "stt"
    /\ handler \in {FnTranscribe, FnIndex}
    /\ Call("stt")
    /\ \/ \E m \in ExternalErrors : Throw(m) /\ UNCHANGED transcript
       \/ \E text \in SttTexts :
            /\ transcript' = text
            /\ pc' = "unlink"
            /\ UNCHANGED error
    /\ UNCHANGED <<request, splitting, playabilityStatus, videoId, title, lookups, captionTracks, selectedTrack, transcriptXml, lengthSeconds,
                   audioParts, partIdx, files, created, response, cleanupFailed>>

\* fs.unlinkSync(audioPath); return 200
unlinkSyncAndRespond ==
    /\ pc = "unlink"
    /\ handler \in {FnTranscribe, FnIndex}
    /\ \/ /\ files' = files \ {AudioPath}
          /\ Return(Reply(handler, 200, [success |-> TRUE, transcript |-> transcript]))
          /\ UNCHANGED <<error, cleanupFailed>>
       \/ /\ \E m \in FsErrors : Throw(m)
          /\ cleanupFailed' = TRUE
          /\ UNCHANGED <<files, response>>
    /\ UNCHANGED <<request, splitting, playabilityStatus, videoId, title, transcript, lookups, captionTracks, selectedTrack, transcriptXml,
                   lengthSeconds, audioParts, partIdx, calls, created>>

-----------------------------------------------------------------------------
(* part_001: audio buffer and Whisper *)

\* the longest video the handler accepts, in seconds
MaxDuration == 600

DecimalDigits == <<"0", "1", "2", "3", "4", "5", "6", "7", "8", "9">>

IsDigit(c) == \E i \in 1..10 : DecimalDigits[i] = c

DigitValue(c) == (CHOOSE i \in 1..10 : DecimalDigits[i] = c) - 1

\* the digits text begins with
RECURSIVE LeadingDigits(_)
LeadingDigits(text) ==
    IF text = <<>> \/ ~IsDigit(Head(text)) THEN <<>>
    ELSE <<Head(text)>> \o LeadingDigits(Tail(text))

RECURSIVE Accumulate(_, _)
Accumulate(acc, digits) ==
    IF digits = <<>> THEN acc
    ELSE Accumulate(acc * 10 + DigitValue(Head(digits)), Tail(digits))

\* parseInt(text): the number the leading digits of text spell; NaN when it
\* begins with none, written -1 here: like NaN, -1 is not greater than 600
parseInt(text) ==
    IF LeadingDigits(text) = <<>> THEN -1 ELSE Accumulate(0, LeadingDigits(text))

\* the lengthSeconds strings the model draws; a live stream declares "0"
Durations ==
    {<<"0">>, <<"5","9","9">>, <<"6","0","0">>, <<"6","0","1">>, <<"3","6","0","0">>}

\* what ytdl.getInfo can fail with
InfoErrors ==
    ExternalErrors
    \cup {<<"Status code: ", "410">>, <<"This is a ", "private", " video">>}

\* a variant of the handler without the test of the duration
getInfo_NoGuard ==
    /\ pc = "getInfo"
    /\ handler = WhisperBuffer
    /\ Call("getInfo")
    /\ \/ \E m \in InfoErrors : Throw(m) /\ UNCHANGED <<title, lengthSeconds, response>>
       \/ \E t \in Titles, d \in Durations :
            /\ title' = t
            /\ lengthSeconds' = d
            /\ UNCHANGED error
            /\ IF FALSE
               THEN Return(Reply(handler, 400,
                      Failure(<<"Video is too long (over 10 minutes). Please try a shorter video.">>)))
               ELSE pc' = "download" /\ UNCHANGED response
    /\ UNCHANGED <<request, splitting, playabilityStatus, videoId, transcript, lookups, captionTracks, selectedTrack, transcriptXml, audioParts,
                   partIdx, files, created, cleanupFailed>>

\* const info = await ytdl.getInfo(url); const duration =
\* parseInt(info.videoDetails.lengthSeconds); if (duration > 600) return 400
getInfo ==
    /\ pc = "getInfo"
    /\ handler = WhisperBuffer
    /\ Call("getInfo")
    /\ \/ \E m \in InfoErrors : Throw(m) /\ UNCHANGED <<title, lengthSeconds, response>>
       \/ \E t \in Titles, d \in Durations :
            /\ title' = t
            /\ lengthSeconds' = d
            /\ UNCHANGED error
            /\ IF parseInt(d) > MaxDuration
               THEN Return(Reply(handler, 400,
                      Failure(<<"Video is too long (over 10 minutes). Please try a shorter video.">>)))
               ELSE pc' = "download" /\ UNCHANGED response
    /\ UNCHANGED <<request, splitting, playabilityStatus, videoId, transcript, lookups, captionTracks, selectedTrack, transcriptXml, audioParts,
                   partIdx, files, created, cleanupFailed>>

DownloadTimeout == <<"Audio download ", "timeout", " - video may be too long">>

\* const audioBuffer = await getAudioBuffer(url): 'end', 'error' or the 2 minute timer
getAudioBuffer ==
    /\ pc = "download"
    /\ handler = WhisperBuffer
    /\ Call("ytdlDownload")
    /\ \/ pc' = "stt" /\ UNCHANGED error
       \/ \E m \in InfoErrors : Throw(m)
       \/ Throw(DownloadTimeout)
    /\ UNCHANGED <<request, splitting, playabilityStatus, videoId, title, transcript, lookups, captionTracks, selectedTrack, transcriptXml,
                   lengthSeconds, audioParts, partIdx, files, created, response, cleanupFailed>>

\* const transcription = await openai.audio.transcriptions.create(...); return 200
whisperBuffer ==
    /\ pc = "stt"
    /\ handler = WhisperBuffer
    /\ Call("stt")
    /\ \/ \E m \in ExternalErrors : Throw(m) /\ UNCHANGED <<transcript, response>>
       \/ \E text \in SttTexts :
            /\ transcript' = text
            /\ Return(Reply(handler, 200,
                            [success |-> TRUE,
                             transcript |-> text,
                             videoId |-> videoId,
                             title |-> title,
                             method |-> "openai-whisper"]))
            /\ UNCHANGED error
    /\ UNCHANGED <<request, splitting, playabilityStatus, videoId, title, lookups, captionTracks, selectedTrack, transcriptXml, lengthSeconds,
                   audioParts, partIdx, files, created, cleanupFailed>>

-----------------------------------------------------------------------------
(* part_002: yt-dlp and Whisper *)

\* what execAsync(yt-dlp ...) can fail with (a killed command after the 5 minute
\* timeout fails with 'Command failed')
YtDlpErrors ==
    {<<"Command failed: yt-dlp">>,
     <<"ERROR: Video ", "not available">>,
     <<"ERROR: ", "private", " video">>,
     <<"spawn yt-dlp ", "timeout">>}

\* await downloadAudio(url, audioPath); if (!fs.existsSync(audioPath)) throw
downloadAudio_ytdlp ==
    /\ pc = "download"
    /\ handler = YtDlpWhisper
    /\ Call("yt-dlp")
    /\ \/ \E m \in YtDlpErrors, written \in BOOLEAN :
            /\ Throw(<<"Failed to download audio: ">> \o m)
            /\ IF written THEN CreateFile(AudioPath) ELSE UNCHANGED <<files, created>>
       \/ /\ Throw(<<"Audio file was not created">>)
          /\ UNCHANGED <<files, created>>
       \/ /\ CreateFile(AudioPath)
          /\ pc' = "stt"
          /\ UNCHANGED error
    /\ UNCHANGED <<request, splitting, playabilityStatus, videoId, title, transcript, lookups, captionTracks, selectedTrack, transcriptXml,
                   lengthSeconds, audioParts, partIdx, response, cleanupFailed>>

\* const transcript = await transcribeWithWhisper(audioPath)
transcribeWithWhisper ==
    /\ pc = "stt"
    /\ handler = YtDlpWhisper
    /\ Call("stt")
    /\ \/ \E m \in ExternalErrors :
            Throw(<<"Transcription failed: ">> \o m) /\ UNCHANGED transcript
       \/ \E text \in SttTexts :
            /\ transcript' = text
            /\ pc' = "unlink"
            /\ UNCHANGED error
    /\ UNCHANGED <<request, splitting, playabilityStatus, videoId, title, lookups, captionTracks, selectedTrack, transcriptXml, lengthSeconds,
                   audioParts, partIdx, files, created, response, cleanupFailed>>

\* await unlink(audioPath); return 200
unlinkAndRespond ==
    /\ pc = "unlink"
    /\ handler = YtDlpWhisper
    /\ \/ /\ files' = files \ {AudioPath}
          /\ Return(Reply(handler, 200,
                          [success |-> TRUE,
                           transcript |-> transcript,
                           videoId |-> videoId,
                           method |-> "yt-dlp-whisper"]))
          /\ UNCHANGED <<error, cleanupFailed>>
       \/ /\ \E m \in FsErrors : Throw(m)
          /\ cleanupFailed' = TRUE
          /\ UNCHANGED <<files, response>>
    /\ UNCHANGED <<request, splitting, playabilityStatus, videoId, title, transcript, lookups, captionTracks, selectedTrack, transcriptXml,
                   lengthSeconds, audioParts, partIdx, calls, created>>

-----------------------------------------------------------------------------
(* part_003: ffmpeg, chunks and Whisper *)

\* const videoInfo = await getVideoInfo(url)
getVideoInfo ==
    /\ pc = "getInfo"
    /\ handler = ChunkedWhisper
    /\ Call("getInfo")
    /\ \/ \E m \in InfoErrors :
            Throw(<<"Failed to get video info: ">> \o m) /\ UNCHANGED title
       \/ \E t \in Titles :
            /\ title' = t
            /\ pc' = "download"
            /\ UNCHANGED error
    /\ UNCHANGED <<request, splitting, playabilityStatus, videoId, transcript, lookups, captionTracks, selectedTrack, transcriptXml, lengthSeconds,
                   audioParts, partIdx, files, created, response, cleanupFailed>>

\* const audioBuffer = await downloadAudio(url, videoInfo.format): 'end' or
\* 'error' of the ytdl stream; no timer is set, so that a transfer that neither
\* ends nor fails is awaited for ever
downloadAudio_chunked ==
    /\ pc = "download"
    /\ handler = ChunkedWhisper
    /\ Call("ytdlDownload")
    /\ \/ pc' = "process" /\ UNCHANGED error
       \/ \E m \in InfoErrors : Throw(m)
       \/ pc' = "stalled" /\ UNCHANGED error
    /\ UNCHANGED <<request, splitting, playabilityStatus, videoId, title, transcript, lookups, captionTracks, selectedTrack, transcriptXml,
                   lengthSeconds, audioParts, partIdx, files, created, response, cleanupFailed>>

\* await processAudio(audioBuffer, mainAudioPath): ffmpeg ... .save(outputPath)
processAudio ==
    /\ pc = "process"
    /\ Call("ffmpeg")
    /\ \/ /\ CreateFile(MainAudio)
          /\ pc' = "split"
          /\ UNCHANGED error
       \/ \E written \in BOOLEAN :
            /\ Throw(<<"ffmpeg exited with code 1">>)
            /\ IF written THEN CreateFile(MainAudio) ELSE UNCHANGED <<files, created>>
    /\ UNCHANGED <<request, splitting, playabilityStatus, videoId, title, transcript, lookups, captionTracks, selectedTrack, transcriptXml,
                   lengthSeconds, audioParts, partIdx, response, cleanupFailed>>

\* the paths splitAudio pushes for numParts parts
PartPaths(numParts) == [i \in 1..numParts |-> PartPath(i)]

\* Math.ceil(d / m) on whole seconds
NumParts(d, m) == (d + m - 1) \div m

\* Math.min(a, b)
MathMin(a, b) == IF a <= b THEN a ELSE b

\* a plan that gives every job the full maxDurationSecs
ChunkPlan_NoMin(d, m) ==
    [i \in 1..NumParts(d, m) |-> [start |-> (i - 1) * m, len |-> m]]

\* for (let i = 0; i < numParts; i++): setStartTime(i * maxDurationSecs) and
\* setDuration(Math.min(maxDurationSecs, duration - start)) of job i + 1
ChunkPlan(d, m) ==
    [i \in 1..NumParts(d, m) |->
        [start |-> (i - 1) * m, len |-> MathMin(m, d - (i - 1) * m)]]

\* the durations ffprobe reports in the model: around every multiple of the
\* ceiling m and half-way between two multiples
ProbeDurations(m) ==
    {d \in 0..(MaxParts * m) : d % m \in {0, 1, m - 1, m \div 2}}

\* audioParts = await splitAudio(mainAudioPath): ffprobe, then one ffmpeg job per
\* part, all started in the loop; outputPaths gets every path in the loop.
\* numParts = Math.ceil(duration / maxDurationSecs); for 0 there is no job and
\* the promise is never settled.
splitAudio ==
    /\ pc = "split"
    /\ Call("ffprobe")
    /\ \/ /\ Throw(<<"ffprobe exited with code 1">>)
          /\ UNCHANGED <<audioParts, splitting>>
       \/ \E d \in ProbeDurations(maxDurationSecs) :
            /\ duration' = d
            /\ finished' = <<>>
            /\ UNCHANGED error
            /\ CASE NumParts(d, maxDurationSecs) = 0 ->
                     /\ pc' = "stuck"
                     /\ UNCHANGED <<audioParts, chunks, outputPaths, running>>
                [] NumParts(d, maxDurationSecs) = 1 ->
                     /\ audioParts' = <<MainAudio>>
                     /\ chunks' = <<[start |-> 0, len |-> d]>>
                     /\ pc' = "transcribe"
                     /\ UNCHANGED <<outputPaths, running>>
                [] OTHER ->
                     /\ chunks' = ChunkPlan(d, maxDurationSecs)
                     /\ outputPaths' = PartPaths(NumParts(d, maxDurationSecs))
                     /\ running' = 1..NumParts(d, maxDurationSecs)
                     /\ pc' = "split.jobs"
                     /\ UNCHANGED audioParts
    /\ UNCHANGED <<request, playabilityStatus, videoId, title, transcript, lookups, captionTracks, selectedTrack, transcriptXml,
                   lengthSeconds, partIdx, files, created, response, cleanupFailed>>

\* the paths of the jobs that have ended, in the order they ended
RECURSIVE PathsOf(_)
PathsOf(jobs) ==
    IF jobs = <<>> THEN <<>> ELSE <<PartPath(Head(jobs))>> \o PathsOf(Tail(jobs))

\* a variant of the 'end' handler that resolves with the paths in the order
\* the jobs ended
splitJobEnd_CompletionOrder ==
    \E i \in running :
        /\ running' = running \ {i}
        /\ finished' = Append(finished, i)
        /\ CreateFile(PartPath(i))
        /\ IF Len(finished') = Len(outputPaths)
           THEN audioParts' = PathsOf(finished') /\ pc' = "transcribe"
           ELSE UNCHANGED <<audioParts, pc>>
        /\ UNCHANGED <<request, playabilityStatus, error, videoId, title, transcript, lookups,
                       captionTracks, selectedTrack, transcriptXml, lengthSeconds, partIdx, calls, response,
                       cleanupFailed, duration, chunks, outputPaths>>

\* .on('end', () => { completed++; if (completed === numParts) resolve(outputPaths) })
\* of any job that is still running, whatever the handler is doing by then
splitJobEnd ==
    \E i \in running :
        /\ running' = running \ {i}
        /\ finished' = Append(finished, i)
        /\ CreateFile(PartPath(i))
        /\ IF Len(finished') = Len(outputPaths)
           THEN audioParts' = outputPaths /\ pc' = "transcribe"
           ELSE UNCHANGED <<audioParts, pc>>
        /\ UNCHANGED <<request, playabilityStatus, error, videoId, title, transcript, lookups,
                       captionTracks, selectedTrack, transcriptXml, lengthSeconds, partIdx, calls, response,
                       cleanupFailed, duration, chunks, outputPaths>>

\* .on('error', reject) of a running job: the first one rejects the promise, the
\* other jobs go on
splitJobError ==
    \E i \in running, written \in BOOLEAN :
        /\ running' = running \ {i}
        /\ IF written THEN CreateFile(PartPath(i)) ELSE UNCHANGED <<files, created>>
        /\ IF pc = "split.jobs"
           THEN Throw(<<"ffmpeg exited with code 1">>)
           ELSE UNCHANGED <<pc, error>>
        /\ UNCHANGED <<request, playabilityStatus, videoId, title, transcript, lookups,
                       captionTracks, selectedTrack, transcriptXml, lengthSeconds, audioParts, partIdx, calls, response,
                       cleanupFailed, duration, chunks, outputPaths, finished>>

\* what the speech-to-text service answers for the audio file at path
ChunkText(path) == ToString(path[2])

\* for (const partPath of audioParts) {
\*     fullTranscript += await transcribeAudio(partPath) + ' ' }
transcribeAudio ==
    /\ pc = "transcribe"
    /\ partIdx < Len(audioParts)
    /\ Call("stt")
    /\ \/ \E m \in ExternalErrors : Throw(m) /\ UNCHANGED <<transcript, partIdx>>
       \/ /\ transcript' = transcript \o <<ChunkText(audioParts[partIdx + 1]), " ">>
          /\ partIdx' = partIdx + 1
          /\ pc' = IF partIdx + 1 = Len(audioParts) THEN "cleanup" ELSE "transcribe"
          /\ UNCHANGED error
    /\ UNCHANGED <<request, splitting, playabilityStatus, videoId, title, lookups, captionTracks, selectedTrack, transcriptXml, lengthSeconds,
                   audioParts, files, created, response, cleanupFailed>>

\* the files the success path unlinks: mainAudioPath and every other part
SuccessCleanup == {MainAudio} \cup {audioParts[i] : i \in 1..Len(audioParts)}

\* await Promise.all([unlink(mainAudioPath), ...parts.map(p => unlink(p))]); return 200
cleanupAndRespond ==
    /\ pc = "cleanup"
    /\ \/ /\ files' = files \ SuccessCleanup
          /\ Return(Reply(handler, 200,
                          [success |-> TRUE,
                           title |-> title,
                           transcript |-> TrimRight(transcript)]))
          /\ UNCHANGED <<error, cleanupFailed>>
       \/ \E removed \in (SUBSET SuccessCleanup) \ {SuccessCleanup}, m \in FsErrors :
            /\ files' = files \ removed
            /\ Throw(m)
            /\ cleanupFailed' = TRUE
            /\ UNCHANGED response
    /\ UNCHANGED <<request, splitting, playabilityStatus, videoId, title, transcript, lookups, captionTracks, selectedTrack, transcriptXml,
                   lengthSeconds, audioParts, partIdx, calls, created>>

-----------------------------------------------------------------------------
(* The catch block of every handler *)

\* the files the catch block of the handler h tries to unlink
CleanupTargets(h) ==
    CASE h \in {AudioDownload, YtDlpWhisper} -> {AudioPath} \cap files
      [] h = ChunkedWhisper ->
           ({MainAudio} \cup {audioParts[i] : i \in 1..Len(audioParts)}) \cap files
      [] OTHER -> {}

\* a variant of the catch block whose cleanup is not wrapped in its own try: a
\* failed unlink replaces the error the handler answers for
Catch_CleanupMasks ==
    /\ pc = "catch"
    /\ \E removed \in SUBSET CleanupTargets(handler) :
         /\ files' = files \ removed
         /\ cleanupFailed' = (cleanupFailed \/ removed # CleanupTargets(handler))
         /\ Return(ErrorResponse(handler, IF removed # CleanupTargets(handler)
                                          THEN <<"EIO: i/o error">> ELSE error))
    /\ UNCHANGED <<request, splitting, playabilityStatus, error, videoId, title, transcript, lookups,
                   captionTracks, selectedTrack, transcriptXml, lengthSeconds, audioParts, partIdx,
                   calls, created>>

\* a variant of the catch block that hands back the transcript gathered so far
Catch_PartialTranscript ==
    /\ pc = "catch"
    /\ \E removed \in SUBSET CleanupTargets(handler) :
         /\ files' = files \ removed
         /\ cleanupFailed' = (cleanupFailed \/ removed # CleanupTargets(handler))
    /\ Return(Reply(handler, ErrorResponse(handler, error).statusCode,
                    [success |-> FALSE, error |-> error, transcript |-> transcript]))
    /\ UNCHANGED <<request, splitting, playabilityStatus, error, videoId, title, transcript, lookups,
                   captionTracks, selectedTrack, transcriptXml, lengthSeconds, audioParts, partIdx, calls, created>>

\* catch (error) { <cleanup, its own failure only logged>; return <mapped error> }
Catch ==
    /\ pc = "catch"
    /\ \E removed \in SUBSET CleanupTargets(handler) :
         /\ files' = files \ removed
         /\ cleanupFailed' = (cleanupFailed \/ removed # CleanupTargets(handler))
    /\ Return(ErrorResponse(handler, error))
    /\ UNCHANGED <<request, splitting, playabilityStatus, error, videoId, title, transcript, lookups, captionTracks, selectedTrack, transcriptXml,
                   lengthSeconds, audioParts, partIdx, calls, created>>

Next ==
    \/ MethodCheck
    \/ ValidateKey
    \/ ParseBody
    \/ ValidateUrl
    \/ CheckOpenAIKey
    \/ getYouTubeVideoData
    \/ downloadAudio_netlify
    \/ AudioDownloadFinish
    \/ StartLookups
    \/ TranscriptPage
    \/ TranscriptXml
    \/ getVideoTitle
    \/ CaptionsRespond
    \/ fetchTranscript
    \/ ytdlPipe
    \/ whisperFile
    \/ unlinkSyncAndRespond
    \/ getInfo
    \/ getAudioBuffer
    \/ whisperBuffer
    \/ downloadAudio_ytdlp
    \/ transcribeWithWhisper
    \/ unlinkAndRespond
    \/ getVideoInfo
    \/ downloadAudio_chunked
    \/ processAudio
    \/ splitAudio
    \/ splitJobEnd
    \/ splitJobError
    \/ transcribeAudio
    \/ cleanupAndRespond
    \/ Catch

Spec == Init /\ [][Next]_vars

-----------------------------------------------------------------------------
(* The URL/ID extractor on its own *)

\* the characters identifiers are drawn from ("&" and "?" end an identifier)
IdChars == {"a", "-", "/", "&", "?"}

\* the tokens drawn as identifiers
Identifiers == UNION {[1..n -> IdChars] : n \in 1..MaxIdLen}

\* a non-empty token without '&', '?', '#' or newline
IsIdentifier(id) ==
    /\ id # <<>>
    /\ \A i \in 1..Len(id) : id[i] \notin {"&", "?", "#", "\n"}

InitGetVideoId ==
    /\ handler \in GetVideoIdHandlers
    /\ httpMethod = "POST"
    /\ reqPath = FunctionPath
    /\ apiKey = API_KEY
    /\ shapeIn \in Shapes
    /\ idIn \in Identifiers
    /\ body = [kind |-> "json", url |-> BuildUrl(shapeIn, idIn)]
    /\ ytdlValid = FALSE
    /\ openaiKeySet = TRUE
    /\ maxDurationSecs = DefaultMaxDurationSecs
    /\ concurrent = NoConcurrent
    /\ pc = "extract"
    /\ IdleWork

\* const videoId = getVideoId(url)
ExtractVideoId ==
    /\ pc = "extract"
    /\ videoId' = getVideoId(handler, body.url)
    /\ pc' = "extracted"
    /\ UNCHANGED <<request, splitting, playabilityStatus, error, title, transcript, lookups, captionTracks, selectedTrack, transcriptXml,
                   lengthSeconds, audioParts, partIdx, calls, files, created, response, cleanupFailed>>

NextGetVideoId == ExtractVideoId

SpecGetVideoId == InitGetVideoId /\ [][NextGetVideoId]_vars

-----------------------------------------------------------------------------
(* part_004: the Express application and its validateApiKey middleware *)

ExpressApp == "part_004"

\* the paths requests are drawn for
Paths == {"/health", "/api/transcript", "/health/", "/api/other"}

\* temp/<videoId>.mp3 of transcribeVideo
ServiceAudio == <<"temp/videoId.mp3", 0>>

\* res.status(status).json(b), after cors() has set its header
ExpressReply(status, b) ==
    [statusCode |-> status, headers |-> [AccessControlAllowOrigin |-> "*"], body |-> b]

InitExpress ==
    /\ handler = ExpressApp
    /\ httpMethod \in {"OPTIONS", "GET", "POST"}
    /\ reqPath \in Paths
    /\ apiKey \in {"", "wrong-key", API_KEY}
    /\ shapeIn \in {"watch", "none"}
    /\ idIn = IF shapeIn = "none" THEN <<>> ELSE SampleId
    /\ body \in IF shapeIn = "none"
                THEN {[kind |-> "malformed", url |-> <<>>],
                      [kind |-> "json", url |-> <<>>],
                      [kind |-> "json", url |-> JunkUrl]}
                ELSE {[kind |-> "json", url |-> BuildUrl(shapeIn, idIn)]}
    /\ ytdlValid \in IF shapeIn # "none" THEN BOOLEAN ELSE {FALSE}
    /\ openaiKeySet = TRUE
    /\ maxDurationSecs = DefaultMaxDurationSecs
    /\ concurrent = NoConcurrent
    /\ pc = "express.json"
    /\ IdleWork

\* app.use(express.json()): a body that is not JSON ends the request with 400
ExpressJson ==
    /\ pc = "express.json"
    /\ IF body.kind = "malformed"
       THEN Return([statusCode |-> 400])
       ELSE pc' = "cors" /\ UNCHANGED response
    /\ UNCHANGED <<request, splitting, playabilityStatus, error, videoId, title, transcript, lookups,
                   captionTracks, selectedTrack, transcriptXml, lengthSeconds, audioParts, partIdx, calls, files,
                   created, cleanupFailed>>

\* app.use(cors()): a preflight request is answered here; helmet() and
\* morgan('dev') after it only add headers and log
Cors ==
    /\ pc = "cors"
    /\ IF httpMethod = "OPTIONS"
       THEN Return([statusCode |-> 204, headers |-> [AccessControlAllowOrigin |-> "*"]])
       ELSE pc' = "limiter" /\ UNCHANGED response
    /\ UNCHANGED <<request, splitting, playabilityStatus, error, videoId, title, transcript, lookups,
                   captionTracks, selectedTrack, transcriptXml, lengthSeconds, audioParts, partIdx, calls, files,
                   created, cleanupFailed>>

\* app.use(limiter): 429 for a client over its limit
RateLimiter ==
    /\ pc = "limiter"
    /\ \/ Return(ExpressReply(429, [message |-> <<"Too many requests">>]))
       \/ pc' = "validateApiKey" /\ UNCHANGED response
    /\ UNCHANGED <<request, splitting, playabilityStatus, error, videoId, title, transcript, lookups,
                   captionTracks, selectedTrack, transcriptXml, lengthSeconds, audioParts, partIdx, calls, files,
                   created, cleanupFailed>>

\* the middleware without its test of the key against process.env.API_KEY
validateApiKeyMiddleware_NoCompare ==
    /\ pc = "validateApiKey"
    /\ IF reqPath = "/health"
       THEN pc' = "route" /\ UNCHANGED response
       ELSE IF apiKey = ""
       THEN Return(ExpressReply(401, Failure(KeyRequired)))
       ELSE pc' = "route" /\ UNCHANGED response
    /\ UNCHANGED <<request, splitting, playabilityStatus, error, videoId, title, transcript, lookups,
                   captionTracks, selectedTrack, transcriptXml, lengthSeconds, audioParts, partIdx, calls, files,
                   created, cleanupFailed>>

\* app.use(validateApiKey): next() for /health, 401 without a key, 403 for a key
\* that is not process.env.API_KEY, next() otherwise
validateApiKeyMiddleware ==
    /\ pc = "validateApiKey"
    /\ IF reqPath = "/health"
       THEN pc' = "route" /\ UNCHANGED response
       ELSE IF apiKey = ""
       THEN Return(ExpressReply(401, Failure(KeyRequired)))
       ELSE IF apiKey # API_KEY
       THEN Return(ExpressReply(403, Failure(KeyInvalid)))
       ELSE pc' = "route" /\ UNCHANGED response
    /\ UNCHANGED <<request, splitting, playabilityStatus, error, videoId, title, transcript, lookups,
                   captionTracks, selectedTrack, transcriptXml, lengthSeconds, audioParts, partIdx, calls, files,
                   created, cleanupFailed>>

\* throw inside the try block of the transcript route
RouteThrow(message) ==
    /\ error' = message
    /\ pc' = "routeCatch"

\* app.post('/api/transcript'): 400 without url, else transcribeVideo(url) up to
\* its first await (ytdl.validateURL, ytdl.getVideoID)
TranscriptRoute ==
    /\ pc = "route"
    /\ httpMethod = "POST"
    /\ reqPath = "/api/transcript"
    /\ IF body.url = <<>>
       THEN /\ Return(ExpressReply(400, Failure(<<"YouTube URL is required">>)))
            /\ UNCHANGED <<error, videoId>>
       ELSE IF ~ytdlValid
       THEN RouteThrow(<<"Invalid YouTube URL">>) /\ UNCHANGED <<response, videoId>>
       ELSE /\ videoId' = idIn
            /\ pc' = "transcribeVideo.download"
            /\ UNCHANGED <<error, response>>
    /\ UNCHANGED <<request, splitting, playabilityStatus, title, transcript, lookups,
                   captionTracks, selectedTrack, transcriptXml, lengthSeconds, audioParts, partIdx, calls, files,
                   created, cleanupFailed>>

\* app.get('/health')
HealthRoute ==
    /\ pc = "route"
    /\ httpMethod = "GET"
    /\ reqPath \in {"/health", "/health/"}
    /\ Return(ExpressReply(200, [status |-> "OK"]))
    /\ UNCHANGED <<request, splitting, playabilityStatus, error, videoId, title, transcript, lookups,
                   captionTracks, selectedTrack, transcriptXml, lengthSeconds, audioParts, partIdx, calls, files,
                   created, cleanupFailed>>

\* no route matches: the 404 of Express
NoRoute ==
    /\ pc = "route"
    /\ ~(httpMethod = "POST" /\ reqPath = "/api/transcript")
    /\ ~(httpMethod = "GET" /\ reqPath \in {"/health", "/health/"})
    /\ Return([statusCode |-> 404, headers |-> [AccessControlAllowOrigin |-> "*"]])
    /\ UNCHANGED <<request, splitting, playabilityStatus, error, videoId, title, transcript, lookups,
                   captionTracks, selectedTrack, transcriptXml, lengthSeconds, audioParts, partIdx, calls, files,
                   created, cleanupFailed>>

\* transcribeVideo: ytdl(url).pipe(fs.createWriteStream(audioPath))
transcribeVideo_download ==
    /\ pc = "transcribeVideo.download"
    /\ Call("ytdlDownload")
    /\ \/ /\ CreateFile(ServiceAudio)
          /\ pc' = "transcribeVideo.whisper"
          /\ UNCHANGED error
       \/ \E m \in FsErrors, written \in BOOLEAN :
            /\ RouteThrow(m)
            /\ IF written THEN CreateFile(ServiceAudio) ELSE UNCHANGED <<files, created>>
    /\ UNCHANGED <<request, splitting, playabilityStatus, videoId, title, transcript, lookups,
                   captionTracks, selectedTrack, transcriptXml, lengthSeconds, audioParts, partIdx, response,
                   cleanupFailed>>

\* transcribeVideo: await openai.audio.transcriptions.create(...)
transcribeVideo_whisper ==
    /\ pc = "transcribeVideo.whisper"
    /\ Call("stt")
    /\ \/ \E m \in ExternalErrors : RouteThrow(m) /\ UNCHANGED transcript
       \/ \E text \in SttTexts :
            /\ transcript' = text
            /\ pc' = "transcribeVideo.unlink"
            /\ UNCHANGED error
    /\ UNCHANGED <<request, splitting, playabilityStatus, videoId, title, lookups, captionTracks, selectedTrack, transcriptXml,
                   lengthSeconds, audioParts, partIdx, files, created, response,
                   cleanupFailed>>

\* transcribeVideo: fs.unlinkSync(audioPath); return transcription;
\* then res.json({ success: true, transcript })
transcribeVideo_unlink ==
    /\ pc = "transcribeVideo.unlink"
    /\ \/ /\ files' = files \ {ServiceAudio}
          /\ Return(ExpressReply(200, [success |-> TRUE, transcript |-> transcript]))
          /\ UNCHANGED <<error, cleanupFailed>>
       \/ /\ \E m \in FsErrors : RouteThrow(m)
          /\ cleanupFailed' = TRUE
          /\ UNCHANGED <<files, response>>
    /\ UNCHANGED <<request, splitting, playabilityStatus, videoId, title, transcript, lookups,
                   captionTracks, selectedTrack, transcriptXml, lengthSeconds, audioParts, partIdx, calls, created>>

\* catch (error) of the transcript route: 500 'Failed to transcribe video'
TranscriptRouteCatch ==
    /\ pc = "routeCatch"
    /\ Return(ExpressReply(500, Failure(<<"Failed to transcribe video">>)))
    /\ UNCHANGED <<request, splitting, playabilityStatus, error, videoId, title, transcript, lookups,
                   captionTracks, selectedTrack, transcriptXml, lengthSeconds, audioParts, partIdx, calls, files,
                   created, cleanupFailed>>

NextExpress ==
    \/ ExpressJson
    \/ Cors
    \/ RateLimiter
    \/ validateApiKeyMiddleware
    \/ TranscriptRoute
    \/ HealthRoute
    \/ NoRoute
    \/ transcribeVideo_download
    \/ transcribeVideo_whisper
    \/ transcribeVideo_unlink
    \/ TranscriptRouteCatch

SpecExpress == InitExpress /\ [][NextExpress]_vars

-----------------------------------------------------------------------------
(* splitAudio(inputPath, maxDurationSecs) on its own: the function is called
   on the converted audio file, with small ceilings and with the default. *)

Ceilings == (1..MaxCeiling) \cup {DefaultMaxDurationSecs}

InitSplitAudio ==
    /\ handler = ChunkedWhisper
    /\ httpMethod = "POST"
    /\ reqPath = FunctionPath
    /\ apiKey = API_KEY
    /\ shapeIn = "watch"
    /\ idIn = SampleId
    /\ body = [kind |-> "json", url |-> BuildUrl(shapeIn, idIn)]
    /\ ytdlValid = TRUE
    /\ openaiKeySet = TRUE
    /\ maxDurationSecs \in Ceilings
    /\ concurrent = NoConcurrent
    /\ pc = "split"
    /\ error = NoError
    /\ videoId = NoValue
    /\ title \in Titles
    /\ transcript = NoValue
    /\ lookups = [transcript |-> "idle", title |-> "idle"]
    /\ captionTracks = <<>>
    /\ selectedTrack = NoTrack
    /\ transcriptXml = <<>>
    /\ lengthSeconds = <<>>
    /\ audioParts = <<>>
    /\ duration = 0
    /\ chunks = <<>>
    /\ outputPaths = <<>>
    /\ running = {}
    /\ finished = <<>>
    /\ partIdx = 0
    /\ calls = <<"getInfo", "ytdlDownload", "ffmpeg">>
    /\ files = {MainAudio}
    /\ created = {MainAudio}
    /\ cleanupFailed = FALSE
    /\ playabilityStatus = "unknown"
    /\ response = NoResponse

NextSplitAudio ==
    \/ splitAudio
    \/ splitJobEnd
    \/ splitJobError

SpecSplitAudio == InitSplitAudio /\ [][NextSplitAudio]_vars

\* ffprobe answers and every ffmpeg job that was started ends or fails
SpecSplitAudioFair == SpecSplitAudio /\ WF_vars(NextSplitAudio)

-----------------------------------------------------------------------------
(* Two requests served at once by one handler that keeps the audio in a
   temporary file, in one directory: functions/transcribe/index.js names the
   file after the video, part_002 after Date.now(). Nothing but the other
   request goes wrong here. *)

Requests == {1, 2}

SharedTempHandlers == {FnIndex, YtDlpWhisper}

Videos == {"videoA", "videoB"}

\* the values Date.now() has when the two handlers start
Clock == {"t", "t + 1 ms"}

\* const audioPath of request r: path.join(tempDir, `${videoId}.mp3`) or
\* path.join(tempDir, `audio_${Date.now()}.mp3`)
TempPath(r) ==
    IF handler = FnIndex
    THEN <<"tmpdir", concurrent.videoId[r], ".mp3">>
    ELSE <<"/tmp/audio_", concurrent.now[r], ".mp3">>

\* the directory after path has been written with the bytes of writers
WriteFile(disk, path, writers) ==
    [p \in DOMAIN disk \cup {path} |-> IF p = path THEN writers ELSE disk[p]]

\* the directory after unlink(path)
RemoveFile(disk, path) == [p \in DOMAIN disk \ {path} |-> disk[p]]

InitTwoRequests ==
    /\ handler \in SharedTempHandlers
    /\ httpMethod = "POST"
    /\ reqPath = FunctionPath
    /\ apiKey = API_KEY
    /\ shapeIn = "watch"
    /\ idIn = SampleId
    /\ body = [kind |-> "json", url |-> BuildUrl(shapeIn, idIn)]
    /\ ytdlValid = (handler \in YtdlHandlers)
    /\ openaiKeySet = TRUE
    /\ maxDurationSecs  =  DefaultMaxDurationSecs
    /\ pc = "start"
    /\ IdleWork
    /\ concurrent \in
         {[videoId |-> v, now |-> n,
           pc |-> [r \in Requests |-> "start"],
           disk |-> << >>,
           heard |-> [r \in Requests |-> {}],
           removed |-> [r \in Requests |-> {}],
           statusCode |-> [r \in Requests |-> 0]] :
            v \in [Requests -> Videos], n \in [Requests -> Clock]}

\* what the two requests leave alone: the state of the single request
single ==
    <<handler, httpMethod, reqPath, apiKey, body, shapeIn, idIn, ytdlValid, openaiKeySet,
      maxDurationSecs, pc, error, videoId, title, transcript, lookups, captionTracks,
      selectedTrack, transcriptXml, lengthSeconds, audioParts, partIdx, calls, files, created,
      cleanupFailed, playabilityStatus, response, splitting>>

\* the write stream of ytdl(url).pipe(fs.createWriteStream(audioPath)), or
\* yt-dlp -o audioPath, opens the file: what was there is gone
StartDownload(r) ==
    /\ concurrent.pc[r] = "start"
    /\ concurrent' = [concurrent EXCEPT
                        !.pc[r] = "downloading",
                        !.disk = WriteFile(@, TempPath(r), {})]
    /\ UNCHANGED single

\* 'finish': the bytes of the request are in the file, if it still has its name
FinishDownload(r) ==
    /\ concurrent.pc[r] = "downloading"
    /\ concurrent' = [concurrent EXCEPT
                        !.pc[r] = "transcribe",
                        !.disk = IF TempPath(r) \in DOMAIN @
                                 THEN WriteFile(@, TempPath(r), @[TempPath(r)] \cup {r})
                                 ELSE @]
    /\ UNCHANGED single

\* the handler's catch: status 500 (no message of these failures has 'API key')
Fail(r) ==
    concurrent' = [concurrent EXCEPT !.pc[r] = "failed", !.statusCode[r] = 500]

\* fs.createReadStream(audioPath) / fs.readFileSync(audioPath) for the Whisper
\* call; part_002 throws 'Audio file was not created' when the file is not there
TranscribeFile(r) ==
    /\ concurrent.pc[r] = "transcribe"
    /\ IF TempPath(r) \in DOMAIN concurrent.disk
       THEN concurrent' = [concurrent EXCEPT
                             !.pc[r] = "unlink",
                             !.heard[r] = concurrent.disk[TempPath(r)]]
       ELSE Fail(r)
    /\ UNCHANGED single

\* fs.unlinkSync(audioPath) / await unlink(audioPath), then return 200; ENOENT
\* when the file is not there
UnlinkFile(r) ==
    /\ concurrent.pc[r] = "unlink"
    /\ IF TempPath(r) \in DOMAIN concurrent.disk
       THEN concurrent' = [concurrent EXCEPT
                             !.pc[r] = "done",
                             !.statusCode[r] = 200,
                             !.removed[r] = concurrent.disk[TempPath(r)],
                             !.disk = RemoveFile(@, TempPath(r))]
       ELSE Fail(r)
    /\ UNCHANGED single

NextTwoRequests ==
    \/ \E r \in Requests : StartDownload(r)
    \/ \E r \in Requests : FinishDownload(r)
    \/ \E r \in Requests : TranscribeFile(r)
    \/ \E r \in Requests : UnlinkFile(r)

SpecTwoRequests == InitTwoRequests /\ [][NextTwoRequests]_vars

-----------------------------------------------------------------------------
(* Properties *)

Responded == response # NoResponse

HasBody == Responded /\ "body" \in DOMAIN response

\* the body says success: true
BodySuccess(b) == "success" \in DOMAIN b /\ b.success = TRUE

\* the body says success: false
BodyFailure(b) == "success" \in DOMAIN b /\ b.success = FALSE

BadCredential == httpMethod = "POST" /\ apiKey # API_KEY

\* C1: in every handler variant, a POST request whose X-API-Key is absent or
\* wrong is turned away before any external call: no page fetch, video-info
\* lookup, audio download, subprocess or speech-to-text call is made and no
\* temporary file is created in that request.
C1_CredentialErrorBeforeExternalCalls ==
    BadCredential =>
        /\ calls = <<>>
        /\ created = {}

\* the handlers that call validateApiKey
KeyCheckingHandlers == Handlers \ {AudioDownload}

\* C2: in every serverless handler variant that checks the key, a POST request
\* with an absent or a wrong API key is answered with status 401 and success
\* false, and with no other status.
C2_CredentialFailureIs401 ==
    (BadCredential /\ Responded /\ handler \in KeyCheckingHandlers) =>
        /\ response.statusCode = 401
        /\ HasBody
        /\ BodyFailure(response.body)

\* a POST request with a valid credential whose body yields no url the handler
\* accepts: no url value in it, a url its handler's getVideoId returns null for,
\* or (in the handlers without a getVideoId) a url ytdl.validateURL rejects
NoUsableUrl ==
    /\ httpMethod = "POST"
    /\ apiKey = API_KEY
    /\ \/ body.url = <<>>
       \/ /\ handler \in GetVideoIdHandlers
          /\ getVideoId(handler, body.url) = NoValue
       \/ /\ handler \notin GetVideoIdHandlers
          /\ ~ytdlValid

\* no external call, no file, and no answer other than 400 with success false
RefusedWith400 ==
    /\ calls = <<>>
    /\ created = {}
    /\ Responded =>
         /\ response.statusCode = 400
         /\ HasBody
         /\ BodyFailure(response.body)

\* C3: a POST request with a valid credential whose body has no url value, or
\* whose url getVideoId returns null for, makes no external call and is answered
\* with status 400 and success false.
C3_MissingOrUnrecognisedUrlIs400 == NoUsableUrl => RefusedWith400

\* the same for the bodies JSON.parse and the destructuring of url accept: the
\* "!url" and "!videoId" branches of every handler
ParsedBodyWithoutUrlIs400 == (NoUsableUrl /\ body.kind = "json") => RefusedWith400

\* a url of an unrecognised shape was answered with 400
UnrecognisedUrlAnswered ==
    /\ NoUsableUrl
    /\ body.url # <<>>
    /\ Responded
    /\ response.statusCode = 400

\* C4: for every identifier ID, every getVideoId of the repository returns ID for
\* the four URL shapes watch?v=ID, youtu.be/ID, embed/ID and v/ID.
C4_SameIdentifierForEveryShape ==
    (pc = "extracted" /\ IsIdentifier(idIn)) => videoId = idIn

\* C5: in every response body, transcript is present exactly when success is
\* true and error is present exactly when success is not true.
C5_TranscriptIffSuccess ==
    HasBody =>
        /\ ("transcript" \in DOMAIN response.body) <=> BodySuccess(response.body)
        /\ ("error" \in DOMAIN response.body) <=> ~BodySuccess(response.body)

\* C6: every response of every handler variant carries
\* Access-Control-Allow-Origin: *.
C6_EveryResponseAllowsAnyOrigin ==
    Responded =>
        /\ "headers" \in DOMAIN response
        /\ response.headers.AccessControlAllowOrigin = "*"

\* C7: in every handler variant an OPTIONS request is answered with status 204
\* and no body, whatever its credential and body, and a request that is neither
\* POST nor OPTIONS is answered with status 405.
C7_PreflightAndMethodCheck ==
    Responded =>
        /\ httpMethod = "OPTIONS" =>
             /\ response.statusCode = 204
             /\ "body" \notin DOMAIN response
             /\ error = NoError
        /\ httpMethod \notin {"POST", "OPTIONS"} => response.statusCode = 405

\* C8: once the handler has returned its response, no temporary audio file the
\* request created still exists, on the success path and on every failure path
\* (stated for the requests in which no attempt to delete a file has failed).
C8_NoTemporaryFileOutlivesRequest ==
    (Responded /\ ~cleanupFailed) => files = {}

\* the calls of an audio pipeline: download, re-encoding, speech-to-text
AudioCalls == {"fetchAudio", "ytdlDownload", "yt-dlp", "ffmpeg", "ffprobe", "stt"}

NoAudioCall == \A i \in 1..Len(calls) : calls[i] \notin AudioCalls

\* C9: when the caption handler has obtained a transcript from a caption track,
\* it makes no audio download and no speech-to-text call, and what it returns is
\* status 200 with method 'youtube-captions'.
C9_CaptionsAnswerWithoutAudio ==
    (handler = Captions /\ lookups.transcript = "done") =>
        /\ NoAudioCall
        /\ Responded =>
             /\ response.statusCode = 200
             /\ BodySuccess(response.body)
             /\ "method" \in DOMAIN response.body
             /\ response.body.method = "youtube-captions"
             /\ response.body.transcript = transcript

\* the caption handler answered from a caption track
C9_Witness ==
    /\ handler = Captions
    /\ lookups.transcript = "done"
    /\ selectedTrack.baseUrl # ""
    /\ Responded
    /\ response.statusCode = 200

\* caption retrieval ended with no captions for the video: no captions data in
\* the page, an empty track list, a selected track without baseUrl, or the
\* transcript library answering with nothing, "disabled" or "none found"
NoCaptionsFound ==
    \/ /\ handler = Captions
       /\ lookups.transcript = "failed"
       /\ \/ Includes(error, "No captions data found")
          \/ Includes(error, "No caption tracks available")
          \/ Includes(error, "No valid caption track found")
    \/ /\ handler = YtTranscript
       /\ calls = <<"fetchTranscript">>
       /\ transcript = NoValue
       /\ \/ pc = "done" /\ error = NoError
          \/ Includes(error, "Transcript is disabled")
          \/ Includes(error, "No transcript found")

\* C10: when caption retrieval finds no captions, the request falls through to
\* the audio pipeline and returns a success response whose method names a
\* transcription-based strategy.
C10_NoCaptionsFallsThroughToAudio ==
    (NoCaptionsFound /\ Responded) =>
        /\ ~NoAudioCall
        /\ BodySuccess(response.body)
        /\ "method" \in DOMAIN response.body
        /\ response.body.method \in {"openai-whisper", "yt-dlp-whisper", "whisper-audio"}

\* C11: in every caption-based handler, when caption retrieval ends without a
\* usable caption track or transcript, the response has status 404 and success
\* false.
C11_NoCaptionsIs404 ==
    (NoCaptionsFound /\ Responded) =>
        /\ response.statusCode = 404
        /\ HasBody
        /\ BodyFailure(response.body)

\* C12: when the player response of the watch page has a playability status
\* other than OK, no caption track or audio format is selected and nothing is
\* downloaded, and the response is the video-not-accessible error with status
\* 403, not the no-captions (404) or the unclassified (500) error.
C12_NotPlayableIs403 ==
    playabilityStatus = "UNPLAYABLE" =>
        /\ selectedTrack = NoTrack
        /\ \A i \in 1..Len(calls) : calls[i] \notin {"fetchAudio", "fetchCaptions"}
        /\ created = {}
        /\ Responded =>
             /\ response.statusCode = 403
             /\ HasBody
             /\ BodyFailure(response.body)

\* the same for the audio-download variant alone, whose getYouTubeVideoData
\* tests playabilityStatus.status
AudioDownloadNotPlayableIs403 == handler = AudioDownload => C12_NotPlayableIs403

\* the handlers that send audio to the speech-to-text service
WhisperHandlers == {FnTranscribe, FnIndex, WhisperBuffer, YtDlpWhisper, ChunkedWhisper}

\* the speech-to-text call was the request's last call and it threw (a throw of
\* an unlink after a successful call sets cleanupFailed)
SttFailed ==
    /\ handler \in WhisperHandlers
    /\ calls # <<>>
    /\ calls[Len(calls)] = "stt"
    /\ ~cleanupFailed
    /\ \/ pc = "catch"
       \/ pc = "done" /\ ~BodySuccess(response.body)

\* C13: in every audio-based handler, when the speech-to-text call fails,
\* whatever the text of its error, the response has status 500 and success false.
C13_SttFailureIs500 ==
    (SttFailed /\ Responded) =>
        /\ response.statusCode = 500
        /\ BodyFailure(response.body)

\* the error strings the handlers write as literals (the two messages of
\* validateApiKey among them)
FixedErrorStrings ==
    {KeyRequired, KeyInvalid,
     <<"Method not allowed">>,
     <<"YouTube URL is required">>,
     <<"Invalid YouTube URL">>,
     <<"OpenAI API key not configured">>,
     <<"Video is too long (over 10 minutes). Please try a shorter video.">>,
     <<"Video is not accessible or may be private">>,
     <<"No audio available for this video">>,
     <<"Could not extract video data from YouTube page">>,
     <<"Failed to process video">>,
     <<"No captions available for this video">>,
     <<"Captions are disabled for this video">>,
     <<"Video not found or is private">>,
     <<"Access denied - video may be restricted">>,
     <<"Failed to extract transcript">>,
     <<"Transcript is disabled for this video">>,
     <<"No transcript available for this video">>,
     <<"Failed to get transcript">>,
     <<"Video download timed out - video may be too long">>,
     <<"Processing timed out - video may be too long">>,
     <<"Video is not available or has been removed">>,
     <<"Video is private or restricted">>,
     <<"Video is not available">>,
     <<"Transcription service error">>,
     <<"Failed to transcribe video">>}

\* C14: the body of every failure response holds nothing but the success flag
\* and an error string of the handler's fixed set, so that two failures that
\* differ only in their internal error text get the same body.
C14_FailureBodyIsMappedStringOnly ==
    (HasBody /\ ~BodySuccess(response.body)) =>
        /\ DOMAIN response.body \subseteq {"success", "error"}
        /\ response.body.error \in FixedErrorStrings

\* the positions of a request inside the transcript route
InTranscriptRoute ==
    {"transcribeVideo.download", "transcribeVideo.whisper", "transcribeVideo.unlink",
     "routeCatch"}

\* C15: the Express middleware validateApiKey lets a request to /health proceed
\* whatever its key; for every other path it does exactly one of: respond 401
\* (no key), respond 403 (a key that is not API_KEY), call next (the key is
\* API_KEY); the transcript route is never entered without the valid key.
C15_MiddlewareGuardsEveryPathButHealth ==
    [][/\ pc = "validateApiKey" =>
            /\ reqPath = "/health" => (pc' = "route" /\ response' = NoResponse)
            /\ (reqPath # "/health" /\ apiKey = "") =>
                 (pc' = "done" /\ response'.statusCode = 401)
            /\ (reqPath # "/health" /\ apiKey \notin {"", API_KEY}) =>
                 (pc' = "done" /\ response'.statusCode = 403)
            /\ (reqPath # "/health" /\ apiKey = API_KEY) =>
                 (pc' = "route" /\ response' = NoResponse)
       /\ pc' \in InTranscriptRoute => apiKey = API_KEY
       /\ (pc = "route" /\ reqPath = "/api/transcript") => apiKey = API_KEY]_vars

\* a request for another path than /health with a wrong key was answered 403
C15_Witness ==
    /\ handler = ExpressApp
    /\ reqPath = "/api/transcript"
    /\ apiKey = "wrong-key"
    /\ Responded
    /\ response.statusCode = 403

\* the texts of the chunks 1..k in chunk-index order, each followed by ' '
RECURSIVE InChunkOrder(_)
InChunkOrder(k) ==
    IF k = 0 THEN <<>> ELSE InChunkOrder(k - 1) \o <<ChunkText(PartPath(k)), " ">>

\* C16: in the chunked Whisper handler, for every number of chunks and every
\* order in which the parallel ffmpeg split jobs end, the list splitAudio
\* resolves with is in chunk-index order, and the transcript is the chunks'
\* transcriptions concatenated in that order.
C16_ChunkOrderIsIndexOrder ==
    (handler = ChunkedWhisper /\ Len(audioParts) >= 2) =>
        /\ Len(audioParts) = NumParts(duration, maxDurationSecs)
        /\ \A k \in 1..Len(audioParts) : audioParts[k] = PartPath(k)
        /\ transcript = InChunkOrder(partIdx)
        /\ (Responded /\ BodySuccess(response.body)) =>
             response.body.transcript = TrimRight(InChunkOrder(Len(audioParts)))

\* the second split job ended before the first and the request succeeded
C16_Witness ==
    /\ handler = ChunkedWhisper
    /\ finished = <<2, 1>>
    /\ Responded
    /\ BodySuccess(response.body)

\* the speech-to-text call of a chunk has failed: the loop stopped short of the
\* last chunk
ChunkCallFailed ==
    /\ handler = ChunkedWhisper
    /\ audioParts # <<>>
    /\ partIdx < Len(audioParts)
    /\ pc \in {"catch", "done"}

\* the number of speech-to-text calls made
SttCalls == Cardinality({i \in 1..Len(calls) : calls[i] = "stt"})

\* C17: in the chunked Whisper handler, when the speech-to-text call of one
\* chunk fails, no later chunk is submitted, the response has success false and
\* carries no transcript text of the chunks that had succeeded.
C17_ChunkFailureIsFatal ==
    /\ (handler = ChunkedWhisper /\ pc \in {"cleanup", "catch", "done"}) =>
            (partIdx < Len(audioParts) => ChunkCallFailed)
    /\ ChunkCallFailed =>
        /\ SttCalls = partIdx + 1
        /\ Responded =>
             /\ BodyFailure(response.body)
             /\ "transcript" \notin DOMAIN response.body
             /\ \A k \in 1..Len(audioParts) :
                  ~Includes(response.body.error, ChunkText(audioParts[k]))

\* the call for the second chunk failed after the first had succeeded
C17_Witness ==
    /\ ChunkCallFailed
    /\ partIdx = 1
    /\ Responded

\* the least number of pieces of length m that cover d
CeilDiv(d, m) == CHOOSE n \in 0..d : n * m >= d /\ (n - 1) * m < d

RECURSIVE SumLen(_)
SumLen(plan) == IF plan = <<>> THEN 0 ELSE Head(plan).len + SumLen(Tail(plan))

\* C18: for every positive duration D and ceiling M, splitAudio plans
\* ceil(D / M) chunks; chunk i (from 0) starts at i * M and lasts
\* min(M, D - i * M), so the chunks follow one another without overlap or gap,
\* none is longer than M or empty, and their lengths add up to D; 45 minutes
\* under a 30 minute ceiling give two chunks.
C18_ChunksCoverDuration ==
    (duration > 0 /\ chunks # <<>>) =>
        LET D == duration
            M == maxDurationSecs
        IN  /\ Len(chunks) = CeilDiv(D, M)
            /\ \A k \in 1..Len(chunks) :
                  /\ chunks[k].start = (k - 1) * M
                  /\ chunks[k].len = MathMin(M, D - (k - 1) * M)
                  /\ chunks[k].len > 0
                  /\ chunks[k].len <= M
            /\ chunks[1].start = 0
            /\ \A k \in 1..(Len(chunks) - 1) :
                  chunks[k + 1].start = chunks[k].start + chunks[k].len
            /\ SumLen(chunks) = D
            /\ (D = 2700 /\ M = 1800) => Len(chunks) = 2
            /\ pc = "transcribe" =>
                  Len(audioParts) = CeilDiv(D, M)

C18_Witness ==
    /\ duration = 2700
    /\ maxDurationSecs = 1800
    /\ chunks = <<[start |-> 0, len |-> 1800], [start |-> 1800, len |-> 900]>>
    /\ pc = "transcribe"
    /\ Len(audioParts) = 2

\* whether a languageCode is exactly en or begins with en-
IsEnglishCode(code) ==
    \/ code = <<"e", "n">>
    \/ Len(code) >= 3 /\ SubSeq(code, 1, 3) = <<"e", "n", "-">>

\* the track the selection policy names: the first English one, else the first
PreferredTrack(tracks) ==
    LET english == {i \in 1..Len(tracks) : IsEnglishCode(tracks[i].languageCode)}
    IN  IF english # {} THEN tracks[Min(english)] ELSE tracks[1]

\* C19: for every non-empty caption-track list, the caption handler selects
\* the first track whose languageCode is exactly en or begins with en- (such
\* as en-GB) when there is one, and the first track of the list otherwise.
C19_SelectsFirstEnglishTrack ==
    (handler = Captions /\ captionTracks # <<>>) =>
        selectedTrack = PreferredTrack(captionTracks)

\* the same policy with the two codes the code compares with: en and en-US
SelectsFirstEnOrEnUSTrack ==
    (handler = Captions /\ captionTracks # <<>>) =>
        LET english == {i \in 1..Len(captionTracks) :
                          captionTracks[i].languageCode \in {LangEn, LangEnUS}}
        IN  selectedTrack = IF english # {} THEN captionTracks[Min(english)]
                            ELSE captionTracks[1]

\* a list whose only English track is en-GB, after a track in another language
EnGBTrackPassedOver ==
    /\ handler = Captions
    /\ Len(captionTracks) = 2
    /\ captionTracks[1].languageCode = LangFr
    /\ captionTracks[2].languageCode = LangEnGB
    /\ selectedTrack = captionTracks[1]
    /\ Responded

\* whether text begins with the entity
BeginsWithEntity(text, entity) ==
    Len(text) >= Len(entity) /\ SubSeq(text, 1, Len(entity)) = entity

\* one pass over the text from left to right: every entity met is replaced and
\* the pass goes on after it, so that nothing it has written is read again
RECURSIVE DecodeOnce(_)
DecodeOnce(text) ==
    LET rest(entity) == SubSeq(text, Len(entity) + 1, Len(text))
    IN  IF text = <<>> THEN <<>>
        ELSE IF BeginsWithEntity(text, EntityAmp)  THEN <<"&">>  \o DecodeOnce(rest(EntityAmp))
        ELSE IF BeginsWithEntity(text, EntityLt)   THEN <<"<">>  \o DecodeOnce(rest(EntityLt))
        ELSE IF BeginsWithEntity(text, EntityGt)   THEN <<">">>  \o DecodeOnce(rest(EntityGt))
        ELSE IF BeginsWithEntity(text, EntityQuot) THEN <<"\"">> \o DecodeOnce(rest(EntityQuot))
        ELSE IF BeginsWithEntity(text, EntityApos) THEN <<"'">>  \o DecodeOnce(rest(EntityApos))
        ELSE <<Head(text)>> \o DecodeOnce(Tail(text))

\* the caption lookup has produced a transcript from the fetched payload
CaptionsDecoded == handler = Captions /\ lookups.transcript = "done"

\* C20: the caption decoder makes a single pass over the five entities: each
\* entity of a segment's source text is replaced once and text written by a
\* replacement is not decoded again, so that &amp;lt; becomes &lt; and not <.
C20_SingleDecodePass ==
    CaptionsDecoded =>
        transcript =
            Join(NonEmpty([i \in 1..Len(transcriptXml) |->
                             DecodeOnce(Trim(transcriptXml[i]))]), <<" ">>)

\* a doubly escaped tag comes out as a tag
DoublyEscapedDecodedTwice ==
    /\ CaptionsDecoded
    /\ transcriptXml = << <<"u","s","e"," ","&","a","m","p",";","l","t",";","b","r","&","a","m","p",";",
                            "g","t",";"," ","t","a","g","s">> >>
    /\ transcript = <<"u","s","e"," ","<","b","r",">"," ","t","a","g","s">>
    /\ Responded

\* on texts where no replacement writes the beginning of another entity, the
\* chained replacements and the single pass agree
RECURSIVE HasSub(_, _)
HasSub(text, sub) ==
    IF Len(text) < Len(sub) THEN FALSE
    ELSE BeginsWithEntity(text, sub) \/ HasSub(Tail(text), sub)

SinglePassWithoutEscapedAmpersand ==
    (CaptionsDecoded /\ \A i \in 1..Len(transcriptXml) : ~HasSub(transcriptXml[i], EntityAmp)) =>
        transcript =
            Join(NonEmpty([i \in 1..Len(transcriptXml) |->
                             DecodeOnce(Trim(transcriptXml[i]))]), <<" ">>)

\* the handlers that answer from captions
CaptionHandlers == {Captions, YtTranscript}

\* the segments that are not empty once trimmed, in source order
RECURSIVE NonBlank(_)
NonBlank(segments) ==
    IF segments = <<>> THEN <<>>
    ELSE IF Trim(Head(segments)) = <<>> THEN NonBlank(Tail(segments))
    ELSE <<Head(segments)>> \o NonBlank(Tail(segments))

\* the text a handler gives for one segment
SegmentText(h, segment) ==
    IF h = Captions THEN DecodeEntities(Trim(segment)) ELSE segment

\* the flat transcript of the segments obtained: the texts kept, joined by one space
FlatTranscript(h, segments) ==
    LET kept == NonBlank(segments)
    IN  Join([i \in 1..Len(kept) |-> SegmentText(h, kept[i])], <<" ">>)

CaptionSuccess ==
    /\ handler \in CaptionHandlers
    /\ HasBody
    /\ BodySuccess(response.body)

\* C21: the flat transcript a caption handler returns is the texts of exactly
\* the segments that are not empty after trimming, in source order, joined by
\* one space; an empty segment adds nothing, not even a separator.
C21_EmptySegmentsDropped ==
    CaptionSuccess => response.body.transcript = FlatTranscript(handler, transcriptXml)

\* the same for the handler that parses the timed-text payload itself
CaptionsDropEmptySegments ==
    (CaptionSuccess /\ handler = Captions) =>
        response.body.transcript = FlatTranscript(handler, transcriptXml)

\* a payload with a blank segment between two others has been answered
BlankSegmentDropped ==
    /\ CaptionSuccess
    /\ handler = Captions
    /\ Len(transcriptXml) = 3
    /\ Trim(transcriptXml[2]) = <<>>
    /\ response.body.transcript = <<"a"," ","&"," ","b"," ","c","d","e","f","g","h">>

\* the library's empty item has left two separators in a row
EmptyItemKeepsSeparator ==
    /\ CaptionSuccess
    /\ handler = YtTranscript
    /\ transcriptXml = << <<"h","e","l","l","o">>, << >>, <<"w","o","r","l","d">> >>
    /\ response.body.transcript = <<"h","e","l","l","o"," "," ","w","o","r","l","d">>

\* transcript.length < 10
MinTranscriptLength == 10

\* C22: a caption handler never returns a success response whose transcript
\* has fewer than 10 characters; such a transcript is answered as an error
\* with success false.
C22_ShortTranscriptIsError ==
    CaptionSuccess => Len(response.body.transcript) >= MinTranscriptLength

\* the same for the handler that parses the timed-text payload itself, with
\* the error it answers instead
CaptionsShortTranscriptIsError ==
    handler = Captions =>
        /\ CaptionSuccess => Len(response.body.transcript) >= MinTranscriptLength
        /\ (Responded /\ lookups.transcript = "failed"
              /\ transcriptXml # <<>>
              /\ Len(DecodeTranscript(transcriptXml)) < MinTranscriptLength) =>
               /\ HasBody
               /\ BodyFailure(response.body)
               /\ "transcript" \notin DOMAIN response.body

\* a two-character payload has been refused by the parsing handler
ShortPayloadRefused ==
    /\ handler = Captions
    /\ transcriptXml = << <<"h","i">> >>
    /\ HasBody
    /\ BodyFailure(response.body)

\* the library variant has answered 200 with a two-character transcript
ShortTranscriptReturned ==
    /\ handler = YtTranscript
    /\ CaptionSuccess
    /\ response.statusCode = 200
    /\ response.body.transcript = <<"h","i">>

\* the number a string of decimal digits declares
RECURSIVE DecimalValue(_)
DecimalValue(digits) ==
    IF digits = <<>> THEN 0
    ELSE 10 * DecimalValue(SubSeq(digits, 1, Len(digits) - 1))
         + DigitValue(digits[Len(digits)])

Called(name) == \E i \in 1..Len(calls) : calls[i] = name

\* C23: in the buffer-based Whisper handler a video whose declared
\* lengthSeconds exceeds 600 is answered with status 400 and success false,
\* and neither the audio download nor the speech-to-text call is started in
\* that request; a video of exactly 600 seconds is not refused by the guard.
C23_LongVideoRefusedBeforeDownload ==
    (handler = WhisperBuffer /\ lengthSeconds # <<>>) =>
        /\ DecimalValue(lengthSeconds) > 600 =>
             /\ HasBody
             /\ response.statusCode = 400
             /\ BodyFailure(response.body)
             /\ ~Called("ytdlDownload")
             /\ ~Called("stt")
        /\ DecimalValue(lengthSeconds) <= 600 =>
             /\ Responded => response.statusCode # 400
             /\ pc = "download" \/ Called("ytdlDownload")

C23_Witness ==
    /\ handler = WhisperBuffer
    /\ lengthSeconds = <<"6","0","1">>
    /\ HasBody
    /\ response.statusCode = 400
    /\ calls = <<"getInfo">>

\* a video of exactly 600 seconds has been transcribed
ExactlyTenMinutesTranscribed ==
    /\ handler = WhisperBuffer
    /\ lengthSeconds = <<"6","0","0">>
    /\ HasBody
    /\ response.statusCode = 200

\* the handlers that download the audio of the video
AudioHandlers == {AudioDownload, FnTranscribe, FnIndex, WhisperBuffer, YtDlpWhisper, ChunkedWhisper}

\* the download of the request was ended by its timer
DownloadTimedOut ==
    /\ handler \in AudioHandlers
    /\ calls # <<>>
    /\ calls[Len(calls)] \in {"fetchAudio", "ytdlDownload", "yt-dlp"}
    /\ Includes(error, "timeout")

\* C24: in every audio-based variant the download is bounded by a timeout: a
\* transfer that has not finished is ended by the timer and is never awaited
\* for ever; then no speech-to-text call is made, no partial file is left and
\* the request ends with a status 500 timeout error.
C24_DownloadBoundedByTimeout ==
    handler \in AudioHandlers =>
        /\ pc # "stalled"
        /\ DownloadTimedOut =>
             /\ ~Called("stt")
             /\ Responded =>
                  /\ response.statusCode = 500
                  /\ HasBody
                  /\ BodyFailure(response.body)

\* the same for the handler that sets a two minute timer on the stream
TimerEndsBufferDownload ==
    handler = WhisperBuffer =>
        /\ pc # "stalled"
        /\ DownloadTimedOut =>
             /\ ~Called("stt")
             /\ files = {}
             /\ Responded =>
                  /\ response.statusCode = 500
                  /\ response.body =
                       Failure(<<"Video download timed out - video may be too long">>)

\* the timer has ended a download and the request has been answered
TimedOutDownloadAnswered ==
    /\ handler = WhisperBuffer
    /\ DownloadTimedOut
    /\ error = DownloadTimeout
    /\ Responded

\* the chunked handler is waiting on a transfer that no timer will end
TransferAwaitedForEver ==
    /\ handler = ChunkedWhisper
    /\ pc = "stalled"
    /\ calls = <<"getInfo", "ytdlDownload">>
    /\ ~Responded

\* C25: in the caption handler the transcript lookup and the title lookup run
\* concurrently and are joined before the response: in every interleaving a
\* failed title lookup does not fail the request (the title is 'Unknown Title'
\* and the transcript is returned with status 200), and a failed transcript
\* lookup gives a response with success false whatever the title lookup gave.
C25_OnlyTranscriptFailureIsFatal ==
    handler = Captions =>
        /\ lookups.title = "caught" =>
             /\ title = <<"Unknown Title">>
             /\ lookups.transcript # "failed" => (pc = "await" \/ Responded) /\ error = NoError
             /\ (Responded /\ lookups.transcript = "done") =>
                  /\ response.statusCode = 200
                  /\ BodySuccess(response.body)
                  /\ response.body.title = <<"Unknown Title">>
                  /\ response.body.transcript = transcript
        /\ (Responded /\ pc = "done" /\ lookups.transcript = "done") =>
             lookups.title \in {"done", "caught"}
        /\ lookups.transcript = "failed" =>
             /\ pc \in {"catch", "done"}
             /\ Responded =>
                  /\ HasBody
                  /\ BodyFailure(response.body)
                  /\ "transcript" \notin DOMAIN response.body

C25_Witness ==
    /\ handler = Captions
    /\ lookups = [transcript |-> "done", title |-> "caught"]
    /\ Responded
    /\ response.statusCode = 200
    /\ response.body.title = <<"Unknown Title">>

\* the transcript lookup has failed after the title lookup had answered
TranscriptFailedAfterTitle ==
    /\ handler = Captions
    /\ lookups.transcript = "failed"
    /\ lookups.title = "done"
    /\ title \in Titles
    /\ Responded
    /\ BodyFailure(response.body)

\* the handlers whose catch block removes temporary files
CleanupHandlers == {AudioDownload, YtDlpWhisper, ChunkedWhisper}

\* a step of the pipeline has thrown, and an unlink of the catch block has too
CleanupFailedAfterFailure ==
    /\ handler \in CleanupHandlers
    /\ error # NoError
    /\ cleanupFailed
    /\ Responded

\* C26: in every handler that cleans up temporary files, when a pipeline step
\* has failed and the cleanup of a temporary file fails too, the status code
\* and the message of the response are those derived from the pipeline error
\* and never from the cleanup error.
C26_CleanupErrorNeverMasks ==
    CleanupFailedAfterFailure =>
        /\ response.statusCode = ErrorResponse(handler, error).statusCode
        /\ response.body = ErrorResponse(handler, error).body
        /\ BodyFailure(response.body)

C26_Witness ==
    /\ CleanupFailedAfterFailure
    /\ handler = YtDlpWhisper
    /\ Includes(error, "API key")
    /\ calls[Len(calls)] = "stt"
    /\ files # {}
    /\ response.statusCode = 401

\* no request has met the audio of the other: it has transcribed and removed
\* only a file holding its own bytes, no file holds the bytes of both, and no
\* request has failed
ExclusiveTempFiles ==
    /\ \A r \in Requests :
         /\ concurrent.heard[r] \subseteq {r}
         /\ concurrent.removed[r] \subseteq {r}
         /\ concurrent.pc[r] # "failed"
         /\ concurrent.pc[r] = "unlink" => concurrent.heard[r] = {r}
    /\ \A p \in DOMAIN concurrent.disk : Cardinality(concurrent.disk[p]) <= 1

\* C27: when one audio-based handler serves two requests at once (also for
\* the same video, also started in the same millisecond), the temporary audio
\* file of each request is its own: no request reads, overwrites or deletes
\* the file of the other, and none fails because of the other.
C27_TempFilesAreExclusive ==
    concurrent # NoConcurrent => ExclusiveTempFiles

\* the same when the two requests have got different file names
DistinctNamesAreExclusive ==
    (concurrent # NoConcurrent /\ TempPath(1) # TempPath(2)) => ExclusiveTempFiles

\* two requests for the same video: one has been answered 200 on the audio
\* both wrote and has removed the file, the other has failed with 500
SameVideoRequestsCollide ==
    /\ concurrent # NoConcurrent
    /\ handler = FnIndex
    /\ concurrent.videoId[1] = concurrent.videoId[2]
    /\ concurrent.statusCode[1] = 200
    /\ concurrent.removed[1] = {1, 2}
    /\ concurrent.statusCode[2] = 500

\* two requests with different names have both been answered 200
TwoRequestsServed ==
    /\ concurrent # NoConcurrent
    /\ TempPath(1) # TempPath(2)
    /\ concurrent.statusCode = [r \in Requests |-> 200]

\* the promise of splitAudio is settled: resolved with the list of chunks, or
\* rejected into the handler's catch
SplitSettled == pc \in {"transcribe", "catch"}

\* C28: for every duration ffprobe can report, 0 included, and every outcome
\* of the ffmpeg split jobs, the promise returned by splitAudio is eventually
\* settled, so that the chunked handler goes on to its response.
C28_SplitAudioSettles == (pc = "split") ~> SplitSettled

\* once the jobs are started the promise is eventually settled
StartedJobsSettle == (pc = "split.jobs") ~> SplitSettled

\* a positive duration never leaves the promise without a job to settle it
PositiveDurationNotStuck == (pc = "stuck") => (duration = 0)

\* ffprobe has reported duration 0: no job was started and nothing is awaited
\* that could settle the promise
ZeroDurationNeverSettles ==
    /\ pc = "stuck"
    /\ duration = 0
    /\ running = {}
    /\ audioParts = <<>>
    /\ ~Responded

=============================================================================
